---- MODULE Spec2Model ----
(***************************************************************************)
(* OpenCLIF ETL (main.py): mapping tables, identifier resolvers, the four  *)
(* dataset adapters and the parquet writer, as a state machine.            *)
(*                                                                         *)
(* Text is a sequence of one-character strings, so that split, strip,      *)
(* isdigit, int and lower are computed character by character.  A          *)
(* character is written as itself where the TLA+ lexer reads it, and as    *)
(* the string "U+XXXX" of its code point where it does not ("U+0661" is    *)
(* ARABIC-INDIC DIGIT ONE).  The character tables are those of Python 3.11 *)
(* (Unicode 14).                                                           *)
(* A cell of a mapping table is the text of its CSV field, <<>> for an     *)
(* empty field; the value Python sees is that text read under the dtype    *)
(* pl.read_csv infers for the column: None (<<>>), the text itself in a    *)
(* String column, and <<dtype, str(v)>> in a column of another dtype.      *)
(* Floats are IEEE 754 doubles and the integers of the cells are of any    *)
(* size, both computed exactly on sequences of digits.  The keys of a      *)
(* lookup and the identifiers of the native tables are integers of TLC,    *)
(* so they stay below 2^31.                                                *)
(* A nullable cell of a native table is <<>> (null) or <<v>> (the value).  *)
(***************************************************************************)
EXTENDS Integers, Sequences, FiniteSets, TLC

(* ------------------------------------------------------------------------ *)
(* Bounds                                                                   *)
(* ------------------------------------------------------------------------ *)
\* total number of characters in the identifier lists of the drawn mapping tables
MaxChars == 3
\* total number of rows of the drawn mapping tables
MaxEntries == 2

(* ------------------------------------------------------------------------ *)
(* Text primitives (Python str methods used by main.py)                     *)
(* ------------------------------------------------------------------------ *)
\* the characters str.strip() removes (Py_UNICODE_ISSPACE)
Whitespace ==
    {
      "\t", "\n", "", "\f", "\r", "", "", "", "", " ", "", " ", " ", "U+2000", "U+2001",
      "U+2002", "U+2003", "U+2004", "U+2005", "U+2006", "U+2007", "U+2008", "U+2009", "U+200A",
      "U+2028", "U+2029", "U+202F", "U+205F", "U+3000"
    }

\* the characters int() accepts around a literal: the same without the four
\* ASCII separators FS, GS, RS and US
IntWhitespace ==
    {
      "\t", "\n", "", "\f", "\r", " ", "", " ", " ", "U+2000", "U+2001", "U+2002", "U+2003",
      "U+2004", "U+2005", "U+2006", "U+2007", "U+2008", "U+2009", "U+200A", "U+2028", "U+2029",
      "U+202F", "U+205F", "U+3000"
    }

\* the decimal digits (category Nd) by value: DecimalDigits[v + 1] are the
\* characters int() reads as the digit v
DecimalDigits ==
    <<
      {
        "0", "U+0660", "۰", "߀", "U+0966", "০", "U+0A66", "૦", "U+0B66", "௦", "U+0C66", "೦",
        "U+0D66", "෦", "U+0E50", "໐", "U+0F20", "U+1040", "႐", "០", "U+1810", "U+1946", "᧐",
        "᪀", "᪐", "U+1B50", "᮰", "U+1C40", "U+1C50", "U+A620", "꣐", "U+A900", "꧐", "꧰",
        "U+AA50", "꯰", "U+FF10", "U+104A0", "U+10D30", "U+11066", "U+110F0", "U+11136",
        "U+111D0", "U+112F0", "U+11450", "U+114D0", "U+11650", "U+116C0", "U+11730", "U+118E0",
        "U+11950", "U+11C50", "U+11D50", "U+11DA0", "U+16A60", "U+16AC0", "U+16B50", "U+1D7CE",
        "U+1D7D8", "U+1D7E2", "U+1D7EC", "U+1D7F6", "U+1E140", "U+1E2F0", "U+1E950", "U+1FBF0"
      },
      {
        "1", "U+0661", "۱", "߁", "U+0967", "১", "U+0A67", "૧", "U+0B67", "௧", "U+0C67", "೧",
        "U+0D67", "෧", "U+0E51", "໑", "U+0F21", "U+1041", "႑", "១", "U+1811", "U+1947", "᧑",
        "᪁", "᪑", "U+1B51", "᮱", "U+1C41", "U+1C51", "U+A621", "꣑", "U+A901", "꧑", "꧱",
        "U+AA51", "꯱", "U+FF11", "U+104A1", "U+10D31", "U+11067", "U+110F1", "U+11137",
        "U+111D1", "U+112F1", "U+11451", "U+114D1", "U+11651", "U+116C1", "U+11731", "U+118E1",
        "U+11951", "U+11C51", "U+11D51", "U+11DA1", "U+16A61", "U+16AC1", "U+16B51", "U+1D7CF",
        "U+1D7D9", "U+1D7E3", "U+1D7ED", "U+1D7F7", "U+1E141", "U+1E2F1", "U+1E951", "U+1FBF1"
      },
      {
        "2", "U+0662", "۲", "߂", "U+0968", "২", "U+0A68", "૨", "U+0B68", "௨", "U+0C68", "೨",
        "U+0D68", "෨", "U+0E52", "໒", "U+0F22", "U+1042", "႒", "២", "U+1812", "U+1948", "᧒",
        "᪂", "᪒", "U+1B52", "᮲", "U+1C42", "U+1C52", "U+A622", "꣒", "U+A902", "꧒", "꧲",
        "U+AA52", "꯲", "U+FF12", "U+104A2", "U+10D32", "U+11068", "U+110F2", "U+11138",
        "U+111D2", "U+112F2", "U+11452", "U+114D2", "U+11652", "U+116C2", "U+11732", "U+118E2",
        "U+11952", "U+11C52", "U+11D52", "U+11DA2", "U+16A62", "U+16AC2", "U+16B52", "U+1D7D0",
        "U+1D7DA", "U+1D7E4", "U+1D7EE", "U+1D7F8", "U+1E142", "U+1E2F2", "U+1E952", "U+1FBF2"
      },
      {
        "3", "U+0663", "۳", "߃", "U+0969", "৩", "U+0A69", "૩", "U+0B69", "௩", "U+0C69", "೩",
        "U+0D69", "෩", "U+0E53", "໓", "U+0F23", "U+1043", "႓", "៣", "U+1813", "U+1949", "᧓",
        "᪃", "᪓", "U+1B53", "᮳", "U+1C43", "U+1C53", "U+A623", "꣓", "U+A903", "꧓", "꧳",
        "U+AA53", "꯳", "U+FF13", "U+104A3", "U+10D33", "U+11069", "U+110F3", "U+11139",
        "U+111D3", "U+112F3", "U+11453", "U+114D3", "U+11653", "U+116C3", "U+11733", "U+118E3",
        "U+11953", "U+11C53", "U+11D53", "U+11DA3", "U+16A63", "U+16AC3", "U+16B53", "U+1D7D1",
        "U+1D7DB", "U+1D7E5", "U+1D7EF", "U+1D7F9", "U+1E143", "U+1E2F3", "U+1E953", "U+1FBF3"
      },
      {
        "4", "U+0664", "۴", "߄", "U+096A", "৪", "U+0A6A", "૪", "U+0B6A", "௪", "U+0C6A", "೪",
        "U+0D6A", "෪", "U+0E54", "໔", "U+0F24", "U+1044", "႔", "៤", "U+1814", "U+194A", "᧔",
        "᪄", "᪔", "U+1B54", "᮴", "U+1C44", "U+1C54", "U+A624", "꣔", "U+A904", "꧔", "꧴",
        "U+AA54", "꯴", "U+FF14", "U+104A4", "U+10D34", "U+1106A", "U+110F4", "U+1113A",
        "U+111D4", "U+112F4", "U+11454", "U+114D4", "U+11654", "U+116C4", "U+11734", "U+118E4",
        "U+11954", "U+11C54", "U+11D54", "U+11DA4", "U+16A64", "U+16AC4", "U+16B54", "U+1D7D2",
        "U+1D7DC", "U+1D7E6", "U+1D7F0", "U+1D7FA", "U+1E144", "U+1E2F4", "U+1E954", "U+1FBF4"
      },
      {
        "5", "U+0665", "۵", "߅", "U+096B", "৫", "U+0A6B", "૫", "U+0B6B", "௫", "U+0C6B", "೫",
        "U+0D6B", "෫", "U+0E55", "໕", "U+0F25", "U+1045", "႕", "៥", "U+1815", "U+194B", "᧕",
        "᪅", "᪕", "U+1B55", "᮵", "U+1C45", "U+1C55", "U+A625", "꣕", "U+A905", "꧕", "꧵",
        "U+AA55", "꯵", "U+FF15", "U+104A5", "U+10D35", "U+1106B", "U+110F5", "U+1113B",
        "U+111D5", "U+112F5", "U+11455", "U+114D5", "U+11655", "U+116C5", "U+11735", "U+118E5",
        "U+11955", "U+11C55", "U+11D55", "U+11DA5", "U+16A65", "U+16AC5", "U+16B55", "U+1D7D3",
        "U+1D7DD", "U+1D7E7", "U+1D7F1", "U+1D7FB", "U+1E145", "U+1E2F5", "U+1E955", "U+1FBF5"
      },
      {
        "6", "U+0666", "۶", "߆", "U+096C", "৬", "U+0A6C", "૬", "U+0B6C", "௬", "U+0C6C", "೬",
        "U+0D6C", "෬", "U+0E56", "໖", "U+0F26", "U+1046", "႖", "៦", "U+1816", "U+194C", "᧖",
        "᪆", "᪖", "U+1B56", "᮶", "U+1C46", "U+1C56", "U+A626", "꣖", "U+A906", "꧖", "꧶",
        "U+AA56", "꯶", "U+FF16", "U+104A6", "U+10D36", "U+1106C", "U+110F6", "U+1113C",
        "U+111D6", "U+112F6", "U+11456", "U+114D6", "U+11656", "U+116C6", "U+11736", "U+118E6",
        "U+11956", "U+11C56", "U+11D56", "U+11DA6", "U+16A66", "U+16AC6", "U+16B56", "U+1D7D4",
        "U+1D7DE", "U+1D7E8", "U+1D7F2", "U+1D7FC", "U+1E146", "U+1E2F6", "U+1E956", "U+1FBF6"
      },
      {
        "7", "U+0667", "۷", "߇", "U+096D", "৭", "U+0A6D", "૭", "U+0B6D", "௭", "U+0C6D", "೭",
        "U+0D6D", "෭", "U+0E57", "໗", "U+0F27", "U+1047", "႗", "៧", "U+1817", "U+194D", "᧗",
        "᪇", "᪗", "U+1B57", "᮷", "U+1C47", "U+1C57", "U+A627", "꣗", "U+A907", "꧗", "꧷",
        "U+AA57", "꯷", "U+FF17", "U+104A7", "U+10D37", "U+1106D", "U+110F7", "U+1113D",
        "U+111D7", "U+112F7", "U+11457", "U+114D7", "U+11657", "U+116C7", "U+11737", "U+118E7",
        "U+11957", "U+11C57", "U+11D57", "U+11DA7", "U+16A67", "U+16AC7", "U+16B57", "U+1D7D5",
        "U+1D7DF", "U+1D7E9", "U+1D7F3", "U+1D7FD", "U+1E147", "U+1E2F7", "U+1E957", "U+1FBF7"
      },
      {
        "8", "U+0668", "۸", "߈", "U+096E", "৮", "U+0A6E", "૮", "U+0B6E", "௮", "U+0C6E", "೮",
        "U+0D6E", "෮", "U+0E58", "໘", "U+0F28", "U+1048", "႘", "៨", "U+1818", "U+194E", "᧘",
        "᪈", "᪘", "U+1B58", "᮸", "U+1C48", "U+1C58", "U+A628", "꣘", "U+A908", "꧘", "꧸",
        "U+AA58", "꯸", "U+FF18", "U+104A8", "U+10D38", "U+1106E", "U+110F8", "U+1113E",
        "U+111D8", "U+112F8", "U+11458", "U+114D8", "U+11658", "U+116C8", "U+11738", "U+118E8",
        "U+11958", "U+11C58", "U+11D58", "U+11DA8", "U+16A68", "U+16AC8", "U+16B58", "U+1D7D6",
        "U+1D7E0", "U+1D7EA", "U+1D7F4", "U+1D7FE", "U+1E148", "U+1E2F8", "U+1E958", "U+1FBF8"
      },
      {
        "9", "U+0669", "۹", "߉", "U+096F", "৯", "U+0A6F", "૯", "U+0B6F", "௯", "U+0C6F", "೯",
        "U+0D6F", "෯", "U+0E59", "໙", "U+0F29", "U+1049", "႙", "៩", "U+1819", "U+194F", "᧙",
        "᪉", "᪙", "U+1B59", "᮹", "U+1C49", "U+1C59", "U+A629", "꣙", "U+A909", "꧙", "꧹",
        "U+AA59", "꯹", "U+FF19", "U+104A9", "U+10D39", "U+1106F", "U+110F9", "U+1113F",
        "U+111D9", "U+112F9", "U+11459", "U+114D9", "U+11659", "U+116C9", "U+11739", "U+118E9",
        "U+11959", "U+11C59", "U+11D59", "U+11DA9", "U+16A69", "U+16AC9", "U+16B59", "U+1D7D7",
        "U+1D7E1", "U+1D7EB", "U+1D7F5", "U+1D7FF", "U+1E149", "U+1E2F9", "U+1E959", "U+1FBF9"
      }
    >>

Decimal == UNION {DecimalDigits[v] : v \in 1..10}

\* the characters str.isdigit() accepts and int() rejects: superscripts,
\* circled and parenthesized digits and the like
OtherDigits ==
    {
      "²", "³", "¹", "U+1369", "U+136A", "U+136B", "U+136C", "U+136D", "U+136E", "U+136F",
      "U+1370", "U+1371", "᧚", "U+2070", "U+2074", "U+2075", "U+2076", "U+2077", "U+2078",
      "U+2079", "₀", "₁", "₂", "₃", "₄", "₅", "₆", "₇", "₈", "₉", "U+2460", "U+2461", "U+2462",
      "U+2463", "U+2464", "U+2465", "U+2466", "U+2467", "U+2468", "U+2474", "U+2475", "U+2476",
      "U+2477", "U+2478", "U+2479", "U+247A", "U+247B", "U+247C", "⒈", "⒉", "⒊", "⒋", "⒌", "⒍",
      "⒎", "⒏", "⒐", "⓪", "⓵", "⓶", "⓷", "⓸", "⓹", "⓺", "⓻", "⓼", "⓽", "⓿", "U+2776", "U+2777",
      "U+2778", "U+2779", "U+277A", "U+277B", "U+277C", "U+277D", "U+277E", "➀", "➁", "➂", "➃",
      "➄", "➅", "➆", "➇", "➈", "➊", "➋", "➌", "➍", "➎", "➏", "➐", "➑", "➒", "U+10A40",
      "U+10A41", "U+10A42", "U+10A43", "U+10E60", "U+10E61", "U+10E62", "U+10E63", "U+10E64",
      "U+10E65", "U+10E66", "U+10E67", "U+10E68", "U+11052", "U+11053", "U+11054", "U+11055",
      "U+11056", "U+11057", "U+11058", "U+11059", "U+1105A", "U+1F100", "U+1F101", "U+1F102",
      "U+1F103", "U+1F104", "U+1F105", "U+1F106", "U+1F107", "U+1F108", "U+1F109", "U+1F10A"
    }

\* the characters c with c.isdigit()
Digits == Decimal \cup OtherDigits

\* str.lower(): the characters with a one-character lower-case mapping, in code
\* point order; capital sigma and U+0130 are treated apart
Upper ==
    <<
      "A", "B", "C", "D", "E", "F", "G", "H", "I", "J", "K", "L", "M", "N", "O", "P", "Q", "R",
      "S", "T", "U", "V", "W", "X", "Y", "Z", "À", "Á", "Â", "Ã", "Ä", "Å", "Æ", "Ç", "È", "É",
      "Ê", "Ë", "Ì", "Í", "Î", "Ï", "Ð", "Ñ", "Ò", "Ó", "Ô", "Õ", "Ö", "Ø", "Ù", "Ú", "Û", "Ü",
      "Ý", "Þ", "U+0100", "U+0102", "U+0104", "U+0106", "U+0108", "U+010A", "U+010C", "U+010E",
      "U+0110", "U+0112", "U+0114", "U+0116", "U+0118", "U+011A", "U+011C", "U+011E", "U+0120",
      "U+0122", "U+0124", "U+0126", "U+0128", "U+012A", "U+012C", "U+012E", "U+0132", "U+0134",
      "U+0136", "U+0139", "U+013B", "U+013D", "U+013F", "U+0141", "U+0143", "U+0145", "U+0147",
      "U+014A", "U+014C", "U+014E", "U+0150", "U+0152", "U+0154", "U+0156", "U+0158", "U+015A",
      "U+015C", "U+015E", "U+0160", "U+0162", "U+0164", "U+0166", "U+0168", "U+016A", "U+016C",
      "U+016E", "U+0170", "U+0172", "U+0174", "U+0176", "U+0178", "U+0179", "U+017B", "U+017D",
      "Ɓ", "Ƃ", "Ƅ", "Ɔ", "Ƈ", "Ɖ", "Ɗ", "Ƌ", "Ǝ", "Ə", "Ɛ", "Ƒ", "Ɠ", "Ɣ", "Ɩ", "Ɨ", "Ƙ", "Ɯ",
      "Ɲ", "Ɵ", "Ơ", "Ƣ", "Ƥ", "Ʀ", "Ƨ", "Ʃ", "Ƭ", "Ʈ", "Ư", "Ʊ", "Ʋ", "Ƴ", "Ƶ", "Ʒ", "Ƹ", "Ƽ",
      "Ǆ", "ǅ", "Ǉ", "ǈ", "Ǌ", "ǋ", "Ǎ", "Ǐ", "Ǒ", "Ǔ", "Ǖ", "Ǘ", "Ǚ", "Ǜ", "Ǟ", "Ǡ", "Ǣ", "Ǥ",
      "Ǧ", "Ǩ", "Ǫ", "Ǭ", "Ǯ", "Ǳ", "ǲ", "Ǵ", "Ƕ", "Ƿ", "Ǹ", "Ǻ", "Ǽ", "Ǿ", "U+0200", "U+0202",
      "U+0204", "U+0206", "U+0208", "U+020A", "U+020C", "U+020E", "U+0210", "U+0212", "U+0214",
      "U+0216", "U+0218", "U+021A", "U+021C", "U+021E", "U+0220", "U+0222", "U+0224", "U+0226",
      "U+0228", "U+022A", "U+022C", "U+022E", "U+0230", "U+0232", "U+023A", "U+023B", "U+023D",
      "U+023E", "U+0241", "U+0243", "U+0244", "U+0245", "U+0246", "U+0248", "U+024A", "U+024C",
      "U+024E", "U+0370", "U+0372", "U+0376", "U+037F", "Ά", "Έ", "Ή", "Ί", "Ό", "Ύ", "Ώ", "Α",
      "Β", "Γ", "Δ", "Ε", "Ζ", "Η", "Θ", "Ι", "Κ", "Λ", "Μ", "Ν", "Ξ", "Ο", "Π", "Ρ", "Τ", "Υ",
      "Φ", "Χ", "Ψ", "Ω", "Ϊ", "Ϋ", "Ϗ", "Ϙ", "Ϛ", "Ϝ", "Ϟ", "Ϡ", "Ϣ", "Ϥ", "Ϧ", "Ϩ", "Ϫ", "Ϭ",
      "Ϯ", "ϴ", "Ϸ", "Ϲ", "Ϻ", "Ͻ", "Ͼ", "Ͽ", "U+0400", "U+0401", "U+0402", "U+0403", "U+0404",
      "U+0405", "U+0406", "U+0407", "U+0408", "U+0409", "U+040A", "U+040B", "U+040C", "U+040D",
      "U+040E", "U+040F", "U+0410", "U+0411", "U+0412", "U+0413", "U+0414", "U+0415", "U+0416",
      "U+0417", "U+0418", "U+0419", "U+041A", "U+041B", "U+041C", "U+041D", "U+041E", "U+041F",
      "U+0420", "U+0421", "U+0422", "U+0423", "U+0424", "U+0425", "U+0426", "U+0427", "U+0428",
      "U+0429", "U+042A", "U+042B", "U+042C", "U+042D", "U+042E", "U+042F", "U+0460", "U+0462",
      "U+0464", "U+0466", "U+0468", "U+046A", "U+046C", "U+046E", "U+0470", "U+0472", "U+0474",
      "U+0476", "U+0478", "U+047A", "U+047C", "U+047E", "Ҁ", "Ҋ", "Ҍ", "Ҏ", "Ґ", "Ғ", "Ҕ", "Җ",
      "Ҙ", "Қ", "Ҝ", "Ҟ", "Ҡ", "Ң", "Ҥ", "Ҧ", "Ҩ", "Ҫ", "Ҭ", "Ү", "Ұ", "Ҳ", "Ҵ", "Ҷ", "Ҹ", "Һ",
      "Ҽ", "Ҿ", "Ӏ", "Ӂ", "Ӄ", "Ӆ", "Ӈ", "Ӊ", "Ӌ", "Ӎ", "Ӑ", "Ӓ", "Ӕ", "Ӗ", "Ә", "Ӛ", "Ӝ", "Ӟ",
      "Ӡ", "Ӣ", "Ӥ", "Ӧ", "Ө", "Ӫ", "Ӭ", "Ӯ", "Ӱ", "Ӳ", "Ӵ", "Ӷ", "Ӹ", "Ӻ", "Ӽ", "Ӿ", "U+0500",
      "U+0502", "U+0504", "U+0506", "U+0508", "U+050A", "U+050C", "U+050E", "U+0510", "U+0512",
      "U+0514", "U+0516", "U+0518", "U+051A", "U+051C", "U+051E", "U+0520", "U+0522", "U+0524",
      "U+0526", "U+0528", "U+052A", "U+052C", "U+052E", "U+0531", "U+0532", "U+0533", "U+0534",
      "U+0535", "U+0536", "U+0537", "U+0538", "U+0539", "U+053A", "U+053B", "U+053C", "U+053D",
      "U+053E", "U+053F", "U+0540", "U+0541", "U+0542", "U+0543", "U+0544", "U+0545", "U+0546",
      "U+0547", "U+0548", "U+0549", "U+054A", "U+054B", "U+054C", "U+054D", "U+054E", "U+054F",
      "U+0550", "U+0551", "U+0552", "U+0553", "U+0554", "U+0555", "U+0556", "Ⴀ", "Ⴁ", "Ⴂ", "Ⴃ",
      "Ⴄ", "Ⴅ", "Ⴆ", "Ⴇ", "Ⴈ", "Ⴉ", "Ⴊ", "Ⴋ", "Ⴌ", "Ⴍ", "Ⴎ", "Ⴏ", "Ⴐ", "Ⴑ", "Ⴒ", "Ⴓ", "Ⴔ", "Ⴕ",
      "Ⴖ", "Ⴗ", "Ⴘ", "Ⴙ", "Ⴚ", "Ⴛ", "Ⴜ", "Ⴝ", "Ⴞ", "Ⴟ", "Ⴠ", "Ⴡ", "Ⴢ", "Ⴣ", "Ⴤ", "Ⴥ", "Ⴧ", "Ⴭ",
      "Ꭰ", "Ꭱ", "Ꭲ", "Ꭳ", "Ꭴ", "Ꭵ", "Ꭶ", "Ꭷ", "Ꭸ", "Ꭹ", "Ꭺ", "Ꭻ", "Ꭼ", "Ꭽ", "Ꭾ", "Ꭿ", "Ꮀ", "Ꮁ",
      "Ꮂ", "Ꮃ", "Ꮄ", "Ꮅ", "Ꮆ", "Ꮇ", "Ꮈ", "Ꮉ", "Ꮊ", "Ꮋ", "Ꮌ", "Ꮍ", "Ꮎ", "Ꮏ", "Ꮐ", "Ꮑ", "Ꮒ", "Ꮓ",
      "Ꮔ", "Ꮕ", "Ꮖ", "Ꮗ", "Ꮘ", "Ꮙ", "Ꮚ", "Ꮛ", "Ꮜ", "Ꮝ", "Ꮞ", "Ꮟ", "Ꮠ", "Ꮡ", "Ꮢ", "Ꮣ", "Ꮤ", "Ꮥ",
      "Ꮦ", "Ꮧ", "Ꮨ", "Ꮩ", "Ꮪ", "Ꮫ", "Ꮬ", "Ꮭ", "Ꮮ", "Ꮯ", "Ꮰ", "Ꮱ", "Ꮲ", "Ꮳ", "Ꮴ", "Ꮵ", "Ꮶ", "Ꮷ",
      "Ꮸ", "Ꮹ", "Ꮺ", "Ꮻ", "Ꮼ", "Ꮽ", "Ꮾ", "Ꮿ", "Ᏸ", "Ᏹ", "Ᏺ", "Ᏻ", "Ᏼ", "Ᏽ", "Ა", "Ბ", "Გ", "Დ",
      "Ე", "Ვ", "Ზ", "Თ", "Ი", "Კ", "Ლ", "Მ", "Ნ", "Ო", "Პ", "Ჟ", "Რ", "Ს", "Ტ", "Უ", "Ფ", "Ქ",
      "Ღ", "Ყ", "Შ", "Ჩ", "Ც", "Ძ", "Წ", "Ჭ", "Ხ", "Ჯ", "Ჰ", "Ჱ", "Ჲ", "Ჳ", "Ჴ", "Ჵ", "Ჶ", "Ჷ",
      "Ჸ", "Ჹ", "Ჺ", "Ჽ", "Ჾ", "Ჿ", "U+1E00", "U+1E02", "U+1E04", "U+1E06", "U+1E08", "U+1E0A",
      "U+1E0C", "U+1E0E", "U+1E10", "U+1E12", "U+1E14", "U+1E16", "U+1E18", "U+1E1A", "U+1E1C",
      "U+1E1E", "U+1E20", "U+1E22", "U+1E24", "U+1E26", "U+1E28", "U+1E2A", "U+1E2C", "U+1E2E",
      "U+1E30", "U+1E32", "U+1E34", "U+1E36", "U+1E38", "U+1E3A", "U+1E3C", "U+1E3E", "U+1E40",
      "U+1E42", "U+1E44", "U+1E46", "U+1E48", "U+1E4A", "U+1E4C", "U+1E4E", "U+1E50", "U+1E52",
      "U+1E54", "U+1E56", "U+1E58", "U+1E5A", "U+1E5C", "U+1E5E", "U+1E60", "U+1E62", "U+1E64",
      "U+1E66", "U+1E68", "U+1E6A", "U+1E6C", "U+1E6E", "U+1E70", "U+1E72", "U+1E74", "U+1E76",
      "U+1E78", "U+1E7A", "U+1E7C", "U+1E7E", "Ẁ", "Ẃ", "Ẅ", "Ẇ", "Ẉ", "Ẋ", "Ẍ", "Ẏ", "Ẑ", "Ẓ",
      "Ẕ", "ẞ", "Ạ", "Ả", "Ấ", "Ầ", "Ẩ", "Ẫ", "Ậ", "Ắ", "Ằ", "Ẳ", "Ẵ", "Ặ", "Ẹ", "Ẻ", "Ẽ", "Ế",
      "Ề", "Ể", "Ễ", "Ệ", "Ỉ", "Ị", "Ọ", "Ỏ", "Ố", "Ồ", "Ổ", "Ỗ", "Ộ", "Ớ", "Ờ", "Ở", "Ỡ", "Ợ",
      "Ụ", "Ủ", "Ứ", "Ừ", "Ử", "Ữ", "Ự", "Ỳ", "Ỵ", "Ỷ", "Ỹ", "Ỻ", "Ỽ", "Ỿ", "U+1F08", "U+1F09",
      "U+1F0A", "U+1F0B", "U+1F0C", "U+1F0D", "U+1F0E", "U+1F0F", "U+1F18", "U+1F19", "U+1F1A",
      "U+1F1B", "U+1F1C", "U+1F1D", "U+1F28", "U+1F29", "U+1F2A", "U+1F2B", "U+1F2C", "U+1F2D",
      "U+1F2E", "U+1F2F", "U+1F38", "U+1F39", "U+1F3A", "U+1F3B", "U+1F3C", "U+1F3D", "U+1F3E",
      "U+1F3F", "U+1F48", "U+1F49", "U+1F4A", "U+1F4B", "U+1F4C", "U+1F4D", "U+1F59", "U+1F5B",
      "U+1F5D", "U+1F5F", "U+1F68", "U+1F69", "U+1F6A", "U+1F6B", "U+1F6C", "U+1F6D", "U+1F6E",
      "U+1F6F", "ᾈ", "ᾉ", "ᾊ", "ᾋ", "ᾌ", "ᾍ", "ᾎ", "ᾏ", "ᾘ", "ᾙ", "ᾚ", "ᾛ", "ᾜ", "ᾝ", "ᾞ", "ᾟ",
      "ᾨ", "ᾩ", "ᾪ", "ᾫ", "ᾬ", "ᾭ", "ᾮ", "ᾯ", "Ᾰ", "Ᾱ", "Ὰ", "Ά", "ᾼ", "Ὲ", "Έ", "Ὴ", "Ή", "ῌ",
      "Ῐ", "Ῑ", "Ὶ", "Ί", "Ῠ", "Ῡ", "Ὺ", "Ύ", "Ῥ", "Ὸ", "Ό", "Ὼ", "Ώ", "ῼ", "U+2126", "U+212A",
      "U+212B", "U+2132", "U+2160", "U+2161", "U+2162", "U+2163", "U+2164", "U+2165", "U+2166",
      "U+2167", "U+2168", "U+2169", "U+216A", "U+216B", "U+216C", "U+216D", "U+216E", "U+216F",
      "Ↄ", "Ⓐ", "Ⓑ", "Ⓒ", "Ⓓ", "Ⓔ", "Ⓕ", "Ⓖ", "Ⓗ", "Ⓘ", "Ⓙ", "Ⓚ", "Ⓛ", "Ⓜ", "Ⓝ", "Ⓞ", "Ⓟ", "Ⓠ",
      "Ⓡ", "Ⓢ", "Ⓣ", "Ⓤ", "Ⓥ", "Ⓦ", "Ⓧ", "Ⓨ", "Ⓩ", "U+2C00", "U+2C01", "U+2C02", "U+2C03",
      "U+2C04", "U+2C05", "U+2C06", "U+2C07", "U+2C08", "U+2C09", "U+2C0A", "U+2C0B", "U+2C0C",
      "U+2C0D", "U+2C0E", "U+2C0F", "U+2C10", "U+2C11", "U+2C12", "U+2C13", "U+2C14", "U+2C15",
      "U+2C16", "U+2C17", "U+2C18", "U+2C19", "U+2C1A", "U+2C1B", "U+2C1C", "U+2C1D", "U+2C1E",
      "U+2C1F", "U+2C20", "U+2C21", "U+2C22", "U+2C23", "U+2C24", "U+2C25", "U+2C26", "U+2C27",
      "U+2C28", "U+2C29", "U+2C2A", "U+2C2B", "U+2C2C", "U+2C2D", "U+2C2E", "U+2C2F", "U+2C60",
      "U+2C62", "U+2C63", "U+2C64", "U+2C67", "U+2C69", "U+2C6B", "U+2C6D", "U+2C6E", "U+2C6F",
      "U+2C70", "U+2C72", "U+2C75", "U+2C7E", "U+2C7F", "Ⲁ", "Ⲃ", "Ⲅ", "Ⲇ", "Ⲉ", "Ⲋ", "Ⲍ", "Ⲏ",
      "Ⲑ", "Ⲓ", "Ⲕ", "Ⲗ", "Ⲙ", "Ⲛ", "Ⲝ", "Ⲟ", "Ⲡ", "Ⲣ", "Ⲥ", "Ⲧ", "Ⲩ", "Ⲫ", "Ⲭ", "Ⲯ", "Ⲱ", "Ⲳ",
      "Ⲵ", "Ⲷ", "Ⲹ", "Ⲻ", "Ⲽ", "Ⲿ", "Ⳁ", "Ⳃ", "Ⳅ", "Ⳇ", "Ⳉ", "Ⳋ", "Ⳍ", "Ⳏ", "Ⳑ", "Ⳓ", "Ⳕ", "Ⳗ",
      "Ⳙ", "Ⳛ", "Ⳝ", "Ⳟ", "Ⳡ", "Ⳣ", "Ⳬ", "Ⳮ", "Ⳳ", "U+A640", "U+A642", "U+A644", "U+A646",
      "U+A648", "U+A64A", "U+A64C", "U+A64E", "U+A650", "U+A652", "U+A654", "U+A656", "U+A658",
      "U+A65A", "U+A65C", "U+A65E", "U+A660", "U+A662", "U+A664", "U+A666", "U+A668", "U+A66A",
      "U+A66C", "Ꚁ", "Ꚃ", "Ꚅ", "Ꚇ", "Ꚉ", "Ꚋ", "Ꚍ", "Ꚏ", "Ꚑ", "Ꚓ", "Ꚕ", "Ꚗ", "Ꚙ", "Ꚛ", "U+A722",
      "U+A724", "U+A726", "U+A728", "U+A72A", "U+A72C", "U+A72E", "U+A732", "U+A734", "U+A736",
      "U+A738", "U+A73A", "U+A73C", "U+A73E", "U+A740", "U+A742", "U+A744", "U+A746", "U+A748",
      "U+A74A", "U+A74C", "U+A74E", "U+A750", "U+A752", "U+A754", "U+A756", "U+A758", "U+A75A",
      "U+A75C", "U+A75E", "U+A760", "U+A762", "U+A764", "U+A766", "U+A768", "U+A76A", "U+A76C",
      "U+A76E", "U+A779", "U+A77B", "U+A77D", "U+A77E", "Ꞁ", "Ꞃ", "Ꞅ", "Ꞇ", "Ꞌ", "Ɥ", "Ꞑ", "Ꞓ",
      "Ꞗ", "Ꞙ", "Ꞛ", "Ꞝ", "Ꞟ", "Ꞡ", "Ꞣ", "Ꞥ", "Ꞧ", "Ꞩ", "Ɦ", "Ɜ", "Ɡ", "Ɬ", "Ɪ", "Ʞ", "Ʇ", "Ʝ",
      "Ꭓ", "Ꞵ", "Ꞷ", "Ꞹ", "Ꞻ", "Ꞽ", "Ꞿ", "Ꟁ", "Ꟃ", "Ꞔ", "Ʂ", "Ᶎ", "Ꟈ", "Ꟊ", "Ꟑ", "Ꟗ", "Ꟙ", "Ꟶ",
      "U+FF21", "U+FF22", "U+FF23", "U+FF24", "U+FF25", "U+FF26", "U+FF27", "U+FF28", "U+FF29",
      "U+FF2A", "U+FF2B", "U+FF2C", "U+FF2D", "U+FF2E", "U+FF2F", "U+FF30", "U+FF31", "U+FF32",
      "U+FF33", "U+FF34", "U+FF35", "U+FF36", "U+FF37", "U+FF38", "U+FF39", "U+FF3A",
      "U+10400", "U+10401", "U+10402", "U+10403", "U+10404", "U+10405", "U+10406", "U+10407",
      "U+10408", "U+10409", "U+1040A", "U+1040B", "U+1040C", "U+1040D", "U+1040E", "U+1040F",
      "U+10410", "U+10411", "U+10412", "U+10413", "U+10414", "U+10415", "U+10416", "U+10417",
      "U+10418", "U+10419", "U+1041A", "U+1041B", "U+1041C", "U+1041D", "U+1041E", "U+1041F",
      "U+10420", "U+10421", "U+10422", "U+10423", "U+10424", "U+10425", "U+10426", "U+10427",
      "U+104B0", "U+104B1", "U+104B2", "U+104B3", "U+104B4", "U+104B5", "U+104B6", "U+104B7",
      "U+104B8", "U+104B9", "U+104BA", "U+104BB", "U+104BC", "U+104BD", "U+104BE", "U+104BF",
      "U+104C0", "U+104C1", "U+104C2", "U+104C3", "U+104C4", "U+104C5", "U+104C6", "U+104C7",
      "U+104C8", "U+104C9", "U+104CA", "U+104CB", "U+104CC", "U+104CD", "U+104CE", "U+104CF",
      "U+104D0", "U+104D1", "U+104D2", "U+104D3", "U+10570", "U+10571", "U+10572", "U+10573",
      "U+10574", "U+10575", "U+10576", "U+10577", "U+10578", "U+10579", "U+1057A", "U+1057C",
      "U+1057D", "U+1057E", "U+1057F", "U+10580", "U+10581", "U+10582", "U+10583", "U+10584",
      "U+10585", "U+10586", "U+10587", "U+10588", "U+10589", "U+1058A", "U+1058C", "U+1058D",
      "U+1058E", "U+1058F", "U+10590", "U+10591", "U+10592", "U+10594", "U+10595", "U+10C80",
      "U+10C81", "U+10C82", "U+10C83", "U+10C84", "U+10C85", "U+10C86", "U+10C87", "U+10C88",
      "U+10C89", "U+10C8A", "U+10C8B", "U+10C8C", "U+10C8D", "U+10C8E", "U+10C8F", "U+10C90",
      "U+10C91", "U+10C92", "U+10C93", "U+10C94", "U+10C95", "U+10C96", "U+10C97", "U+10C98",
      "U+10C99", "U+10C9A", "U+10C9B", "U+10C9C", "U+10C9D", "U+10C9E", "U+10C9F", "U+10CA0",
      "U+10CA1", "U+10CA2", "U+10CA3", "U+10CA4", "U+10CA5", "U+10CA6", "U+10CA7", "U+10CA8",
      "U+10CA9", "U+10CAA", "U+10CAB", "U+10CAC", "U+10CAD", "U+10CAE", "U+10CAF", "U+10CB0",
      "U+10CB1", "U+10CB2", "U+118A0", "U+118A1", "U+118A2", "U+118A3", "U+118A4", "U+118A5",
      "U+118A6", "U+118A7", "U+118A8", "U+118A9", "U+118AA", "U+118AB", "U+118AC", "U+118AD",
      "U+118AE", "U+118AF", "U+118B0", "U+118B1", "U+118B2", "U+118B3", "U+118B4", "U+118B5",
      "U+118B6", "U+118B7", "U+118B8", "U+118B9", "U+118BA", "U+118BB", "U+118BC", "U+118BD",
      "U+118BE", "U+118BF", "U+16E40", "U+16E41", "U+16E42", "U+16E43", "U+16E44", "U+16E45",
      "U+16E46", "U+16E47", "U+16E48", "U+16E49", "U+16E4A", "U+16E4B", "U+16E4C", "U+16E4D",
      "U+16E4E", "U+16E4F", "U+16E50", "U+16E51", "U+16E52", "U+16E53", "U+16E54", "U+16E55",
      "U+16E56", "U+16E57", "U+16E58", "U+16E59", "U+16E5A", "U+16E5B", "U+16E5C", "U+16E5D",
      "U+16E5E", "U+16E5F", "U+1E900", "U+1E901", "U+1E902", "U+1E903", "U+1E904", "U+1E905",
      "U+1E906", "U+1E907", "U+1E908", "U+1E909", "U+1E90A", "U+1E90B", "U+1E90C", "U+1E90D",
      "U+1E90E", "U+1E90F", "U+1E910", "U+1E911", "U+1E912", "U+1E913", "U+1E914", "U+1E915",
      "U+1E916", "U+1E917", "U+1E918", "U+1E919", "U+1E91A", "U+1E91B", "U+1E91C", "U+1E91D",
      "U+1E91E", "U+1E91F", "U+1E920", "U+1E921"
    >>

\* Lower[k] is the lower-case mapping of Upper[k]
Lower ==
    <<
      "a", "b", "c", "d", "e", "f", "g", "h", "i", "j", "k", "l", "m", "n", "o", "p", "q", "r",
      "s", "t", "u", "v", "w", "x", "y", "z", "à", "á", "â", "ã", "ä", "å", "æ", "ç", "è", "é",
      "ê", "ë", "ì", "í", "î", "ï", "ð", "ñ", "ò", "ó", "ô", "õ", "ö", "ø", "ù", "ú", "û", "ü",
      "ý", "þ", "U+0101", "U+0103", "U+0105", "U+0107", "U+0109", "U+010B", "U+010D", "U+010F",
      "U+0111", "U+0113", "U+0115", "U+0117", "U+0119", "U+011B", "U+011D", "U+011F", "U+0121",
      "U+0123", "U+0125", "U+0127", "U+0129", "U+012B", "U+012D", "U+012F", "U+0133", "U+0135",
      "U+0137", "U+013A", "U+013C", "U+013E", "U+0140", "U+0142", "U+0144", "U+0146", "U+0148",
      "U+014B", "U+014D", "U+014F", "U+0151", "U+0153", "U+0155", "U+0157", "U+0159", "U+015B",
      "U+015D", "U+015F", "U+0161", "U+0163", "U+0165", "U+0167", "U+0169", "U+016B", "U+016D",
      "U+016F", "U+0171", "U+0173", "U+0175", "U+0177", "ÿ", "U+017A", "U+017C", "U+017E",
      "U+0253", "ƃ", "ƅ", "U+0254", "ƈ", "U+0256", "U+0257", "ƌ", "ǝ", "U+0259", "U+025B", "ƒ",
      "U+0260", "U+0263", "U+0269", "U+0268", "ƙ", "U+026F", "U+0272", "U+0275", "ơ", "ƣ", "ƥ",
      "ʀ", "ƨ", "ʃ", "ƭ", "ʈ", "ư", "ʊ", "ʋ", "ƴ", "ƶ", "ʒ", "ƹ", "ƽ", "ǆ", "ǆ", "ǉ", "ǉ", "ǌ",
      "ǌ", "ǎ", "ǐ", "ǒ", "ǔ", "ǖ", "ǘ", "ǚ", "ǜ", "ǟ", "ǡ", "ǣ", "ǥ", "ǧ", "ǩ", "ǫ", "ǭ", "ǯ",
      "ǳ", "ǳ", "ǵ", "ƕ", "ƿ", "ǹ", "ǻ", "ǽ", "ǿ", "U+0201", "U+0203", "U+0205", "U+0207",
      "U+0209", "U+020B", "U+020D", "U+020F", "U+0211", "U+0213", "U+0215", "U+0217", "U+0219",
      "U+021B", "U+021D", "U+021F", "ƞ", "U+0223", "U+0225", "U+0227", "U+0229", "U+022B",
      "U+022D", "U+022F", "U+0231", "U+0233", "U+2C65", "U+023C", "ƚ", "U+2C66", "U+0242", "ƀ",
      "ʉ", "ʌ", "U+0247", "U+0249", "U+024B", "U+024D", "U+024F", "U+0371", "U+0373", "U+0377",
      "ϳ", "ά", "έ", "ή", "ί", "ό", "ύ", "ώ", "α", "β", "γ", "δ", "ε", "ζ", "η", "θ", "ι", "κ",
      "λ", "μ", "ν", "ξ", "ο", "π", "ρ", "τ", "υ", "φ", "χ", "ψ", "ω", "ϊ", "ϋ", "ϗ", "ϙ", "ϛ",
      "ϝ", "ϟ", "ϡ", "ϣ", "ϥ", "ϧ", "ϩ", "ϫ", "ϭ", "ϯ", "θ", "ϸ", "ϲ", "ϻ", "U+037B", "U+037C",
      "U+037D", "U+0450", "U+0451", "U+0452", "U+0453", "U+0454", "U+0455", "U+0456", "U+0457",
      "U+0458", "U+0459", "U+045A", "U+045B", "U+045C", "U+045D", "U+045E", "U+045F", "U+0430",
      "U+0431", "U+0432", "U+0433", "U+0434", "U+0435", "U+0436", "U+0437", "U+0438", "U+0439",
      "U+043A", "U+043B", "U+043C", "U+043D", "U+043E", "U+043F", "U+0440", "U+0441", "U+0442",
      "U+0443", "U+0444", "U+0445", "U+0446", "U+0447", "U+0448", "U+0449", "U+044A", "U+044B",
      "U+044C", "U+044D", "U+044E", "U+044F", "U+0461", "U+0463", "U+0465", "U+0467", "U+0469",
      "U+046B", "U+046D", "U+046F", "U+0471", "U+0473", "U+0475", "U+0477", "U+0479", "U+047B",
      "U+047D", "U+047F", "ҁ", "ҋ", "ҍ", "ҏ", "ґ", "ғ", "ҕ", "җ", "ҙ", "қ", "ҝ", "ҟ", "ҡ", "ң",
      "ҥ", "ҧ", "ҩ", "ҫ", "ҭ", "ү", "ұ", "ҳ", "ҵ", "ҷ", "ҹ", "һ", "ҽ", "ҿ", "ӏ", "ӂ", "ӄ", "ӆ",
      "ӈ", "ӊ", "ӌ", "ӎ", "ӑ", "ӓ", "ӕ", "ӗ", "ә", "ӛ", "ӝ", "ӟ", "ӡ", "ӣ", "ӥ", "ӧ", "ө", "ӫ",
      "ӭ", "ӯ", "ӱ", "ӳ", "ӵ", "ӷ", "ӹ", "ӻ", "ӽ", "ӿ", "U+0501", "U+0503", "U+0505", "U+0507",
      "U+0509", "U+050B", "U+050D", "U+050F", "U+0511", "U+0513", "U+0515", "U+0517", "U+0519",
      "U+051B", "U+051D", "U+051F", "U+0521", "U+0523", "U+0525", "U+0527", "U+0529", "U+052B",
      "U+052D", "U+052F", "U+0561", "U+0562", "U+0563", "U+0564", "U+0565", "U+0566", "U+0567",
      "U+0568", "U+0569", "U+056A", "U+056B", "U+056C", "U+056D", "U+056E", "U+056F", "U+0570",
      "U+0571", "U+0572", "U+0573", "U+0574", "U+0575", "U+0576", "U+0577", "U+0578", "U+0579",
      "U+057A", "U+057B", "U+057C", "U+057D", "U+057E", "U+057F", "ր", "ց", "ւ", "փ", "ք", "օ",
      "ֆ", "U+2D00", "U+2D01", "U+2D02", "U+2D03", "U+2D04", "U+2D05", "U+2D06", "U+2D07",
      "U+2D08", "U+2D09", "U+2D0A", "U+2D0B", "U+2D0C", "U+2D0D", "U+2D0E", "U+2D0F", "U+2D10",
      "U+2D11", "U+2D12", "U+2D13", "U+2D14", "U+2D15", "U+2D16", "U+2D17", "U+2D18", "U+2D19",
      "U+2D1A", "U+2D1B", "U+2D1C", "U+2D1D", "U+2D1E", "U+2D1F", "U+2D20", "U+2D21", "U+2D22",
      "U+2D23", "U+2D24", "U+2D25", "U+2D27", "U+2D2D", "U+AB70", "U+AB71", "U+AB72", "U+AB73",
      "U+AB74", "U+AB75", "U+AB76", "U+AB77", "U+AB78", "U+AB79", "U+AB7A", "U+AB7B", "U+AB7C",
      "U+AB7D", "U+AB7E", "U+AB7F", "ꮀ", "ꮁ", "ꮂ", "ꮃ", "ꮄ", "ꮅ", "ꮆ", "ꮇ", "ꮈ", "ꮉ", "ꮊ", "ꮋ",
      "ꮌ", "ꮍ", "ꮎ", "ꮏ", "ꮐ", "ꮑ", "ꮒ", "ꮓ", "ꮔ", "ꮕ", "ꮖ", "ꮗ", "ꮘ", "ꮙ", "ꮚ", "ꮛ", "ꮜ", "ꮝ",
      "ꮞ", "ꮟ", "ꮠ", "ꮡ", "ꮢ", "ꮣ", "ꮤ", "ꮥ", "ꮦ", "ꮧ", "ꮨ", "ꮩ", "ꮪ", "ꮫ", "ꮬ", "ꮭ", "ꮮ", "ꮯ",
      "ꮰ", "ꮱ", "ꮲ", "ꮳ", "ꮴ", "ꮵ", "ꮶ", "ꮷ", "ꮸ", "ꮹ", "ꮺ", "ꮻ", "ꮼ", "ꮽ", "ꮾ", "ꮿ", "ᏸ", "ᏹ",
      "ᏺ", "ᏻ", "ᏼ", "ᏽ", "ა", "ბ", "გ", "დ", "ე", "ვ", "ზ", "თ", "ი", "კ", "ლ", "მ", "ნ", "ო",
      "პ", "ჟ", "რ", "ს", "ტ", "უ", "ფ", "ქ", "ღ", "ყ", "შ", "ჩ", "ც", "ძ", "წ", "ჭ", "ხ", "ჯ",
      "ჰ", "ჱ", "ჲ", "ჳ", "ჴ", "ჵ", "ჶ", "ჷ", "ჸ", "ჹ", "ჺ", "ჽ", "ჾ", "ჿ", "U+1E01", "U+1E03",
      "U+1E05", "U+1E07", "U+1E09", "U+1E0B", "U+1E0D", "U+1E0F", "U+1E11", "U+1E13", "U+1E15",
      "U+1E17", "U+1E19", "U+1E1B", "U+1E1D", "U+1E1F", "U+1E21", "U+1E23", "U+1E25", "U+1E27",
      "U+1E29", "U+1E2B", "U+1E2D", "U+1E2F", "U+1E31", "U+1E33", "U+1E35", "U+1E37", "U+1E39",
      "U+1E3B", "U+1E3D", "U+1E3F", "U+1E41", "U+1E43", "U+1E45", "U+1E47", "U+1E49", "U+1E4B",
      "U+1E4D", "U+1E4F", "U+1E51", "U+1E53", "U+1E55", "U+1E57", "U+1E59", "U+1E5B", "U+1E5D",
      "U+1E5F", "U+1E61", "U+1E63", "U+1E65", "U+1E67", "U+1E69", "U+1E6B", "U+1E6D", "U+1E6F",
      "U+1E71", "U+1E73", "U+1E75", "U+1E77", "U+1E79", "U+1E7B", "U+1E7D", "U+1E7F", "ẁ", "ẃ",
      "ẅ", "ẇ", "ẉ", "ẋ", "ẍ", "ẏ", "ẑ", "ẓ", "ẕ", "ß", "ạ", "ả", "ấ", "ầ", "ẩ", "ẫ", "ậ", "ắ",
      "ằ", "ẳ", "ẵ", "ặ", "ẹ", "ẻ", "ẽ", "ế", "ề", "ể", "ễ", "ệ", "ỉ", "ị", "ọ", "ỏ", "ố", "ồ",
      "ổ", "ỗ", "ộ", "ớ", "ờ", "ở", "ỡ", "ợ", "ụ", "ủ", "ứ", "ừ", "ử", "ữ", "ự", "ỳ", "ỵ", "ỷ",
      "ỹ", "ỻ", "ỽ", "ỿ", "U+1F00", "U+1F01", "U+1F02", "U+1F03", "U+1F04", "U+1F05", "U+1F06",
      "U+1F07", "U+1F10", "U+1F11", "U+1F12", "U+1F13", "U+1F14", "U+1F15", "U+1F20", "U+1F21",
      "U+1F22", "U+1F23", "U+1F24", "U+1F25", "U+1F26", "U+1F27", "U+1F30", "U+1F31", "U+1F32",
      "U+1F33", "U+1F34", "U+1F35", "U+1F36", "U+1F37", "U+1F40", "U+1F41", "U+1F42", "U+1F43",
      "U+1F44", "U+1F45", "U+1F51", "U+1F53", "U+1F55", "U+1F57", "U+1F60", "U+1F61", "U+1F62",
      "U+1F63", "U+1F64", "U+1F65", "U+1F66", "U+1F67", "ᾀ", "ᾁ", "ᾂ", "ᾃ", "ᾄ", "ᾅ", "ᾆ", "ᾇ",
      "ᾐ", "ᾑ", "ᾒ", "ᾓ", "ᾔ", "ᾕ", "ᾖ", "ᾗ", "ᾠ", "ᾡ", "ᾢ", "ᾣ", "ᾤ", "ᾥ", "ᾦ", "ᾧ", "ᾰ", "ᾱ",
      "U+1F70", "U+1F71", "ᾳ", "U+1F72", "U+1F73", "U+1F74", "U+1F75", "ῃ", "ῐ", "ῑ", "U+1F76",
      "U+1F77", "ῠ", "ῡ", "U+1F7A", "U+1F7B", "ῥ", "U+1F78", "U+1F79", "U+1F7C", "U+1F7D", "ῳ",
      "ω", "k", "å", "U+214E", "U+2170", "U+2171", "U+2172", "U+2173", "U+2174", "U+2175",
      "U+2176", "U+2177", "U+2178", "U+2179", "U+217A", "U+217B", "U+217C", "U+217D", "U+217E",
      "U+217F", "ↄ", "ⓐ", "ⓑ", "ⓒ", "ⓓ", "ⓔ", "ⓕ", "ⓖ", "ⓗ", "ⓘ", "ⓙ", "ⓚ", "ⓛ", "ⓜ", "ⓝ", "ⓞ",
      "ⓟ", "ⓠ", "ⓡ", "ⓢ", "ⓣ", "ⓤ", "ⓥ", "ⓦ", "ⓧ", "ⓨ", "ⓩ", "U+2C30", "U+2C31", "U+2C32",
      "U+2C33", "U+2C34", "U+2C35", "U+2C36", "U+2C37", "U+2C38", "U+2C39", "U+2C3A", "U+2C3B",
      "U+2C3C", "U+2C3D", "U+2C3E", "U+2C3F", "U+2C40", "U+2C41", "U+2C42", "U+2C43", "U+2C44",
      "U+2C45", "U+2C46", "U+2C47", "U+2C48", "U+2C49", "U+2C4A", "U+2C4B", "U+2C4C", "U+2C4D",
      "U+2C4E", "U+2C4F", "U+2C50", "U+2C51", "U+2C52", "U+2C53", "U+2C54", "U+2C55", "U+2C56",
      "U+2C57", "U+2C58", "U+2C59", "U+2C5A", "U+2C5B", "U+2C5C", "U+2C5D", "U+2C5E", "U+2C5F",
      "U+2C61", "U+026B", "U+1D7D", "U+027D", "U+2C68", "U+2C6A", "U+2C6C", "U+0251", "U+0271",
      "U+0250", "U+0252", "U+2C73", "U+2C76", "U+023F", "U+0240", "ⲁ", "ⲃ", "ⲅ", "ⲇ", "ⲉ", "ⲋ",
      "ⲍ", "ⲏ", "ⲑ", "ⲓ", "ⲕ", "ⲗ", "ⲙ", "ⲛ", "ⲝ", "ⲟ", "ⲡ", "ⲣ", "ⲥ", "ⲧ", "ⲩ", "ⲫ", "ⲭ", "ⲯ",
      "ⲱ", "ⲳ", "ⲵ", "ⲷ", "ⲹ", "ⲻ", "ⲽ", "ⲿ", "ⳁ", "ⳃ", "ⳅ", "ⳇ", "ⳉ", "ⳋ", "ⳍ", "ⳏ", "ⳑ", "ⳓ",
      "ⳕ", "ⳗ", "ⳙ", "ⳛ", "ⳝ", "ⳟ", "ⳡ", "ⳣ", "ⳬ", "ⳮ", "ⳳ", "U+A641", "U+A643", "U+A645",
      "U+A647", "U+A649", "U+A64B", "U+A64D", "U+A64F", "U+A651", "U+A653", "U+A655", "U+A657",
      "U+A659", "U+A65B", "U+A65D", "U+A65F", "U+A661", "U+A663", "U+A665", "U+A667", "U+A669",
      "U+A66B", "U+A66D", "ꚁ", "ꚃ", "ꚅ", "ꚇ", "ꚉ", "ꚋ", "ꚍ", "ꚏ", "ꚑ", "ꚓ", "ꚕ", "ꚗ", "ꚙ", "ꚛ",
      "U+A723", "U+A725", "U+A727", "U+A729", "U+A72B", "U+A72D", "U+A72F", "U+A733", "U+A735",
      "U+A737", "U+A739", "U+A73B", "U+A73D", "U+A73F", "U+A741", "U+A743", "U+A745", "U+A747",
      "U+A749", "U+A74B", "U+A74D", "U+A74F", "U+A751", "U+A753", "U+A755", "U+A757", "U+A759",
      "U+A75B", "U+A75D", "U+A75F", "U+A761", "U+A763", "U+A765", "U+A767", "U+A769", "U+A76B",
      "U+A76D", "U+A76F", "U+A77A", "U+A77C", "U+1D79", "U+A77F", "ꞁ", "ꞃ", "ꞅ", "ꞇ", "ꞌ",
      "U+0265", "ꞑ", "ꞓ", "ꞗ", "ꞙ", "ꞛ", "ꞝ", "ꞟ", "ꞡ", "ꞣ", "ꞥ", "ꞧ", "ꞩ", "U+0266", "U+025C",
      "U+0261", "U+026C", "U+026A", "ʞ", "ʇ", "ʝ", "U+AB53", "ꞵ", "ꞷ", "ꞹ", "ꞻ", "ꞽ", "ꞿ", "ꟁ",
      "ꟃ", "ꞔ", "ʂ", "ᶎ", "ꟈ", "ꟊ", "ꟑ", "ꟗ", "ꟙ", "ꟶ", "U+FF41", "U+FF42", "U+FF43", "U+FF44",
      "U+FF45", "U+FF46", "U+FF47", "U+FF48", "U+FF49", "U+FF4A", "U+FF4B", "U+FF4C", "U+FF4D",
      "U+FF4E", "U+FF4F", "U+FF50", "U+FF51", "U+FF52", "U+FF53", "U+FF54", "U+FF55", "U+FF56",
      "U+FF57", "U+FF58", "U+FF59", "U+FF5A", "U+10428", "U+10429", "U+1042A", "U+1042B",
      "U+1042C", "U+1042D", "U+1042E", "U+1042F", "U+10430", "U+10431", "U+10432", "U+10433",
      "U+10434", "U+10435", "U+10436", "U+10437", "U+10438", "U+10439", "U+1043A", "U+1043B",
      "U+1043C", "U+1043D", "U+1043E", "U+1043F", "U+10440", "U+10441", "U+10442", "U+10443",
      "U+10444", "U+10445", "U+10446", "U+10447", "U+10448", "U+10449", "U+1044A", "U+1044B",
      "U+1044C", "U+1044D", "U+1044E", "U+1044F", "U+104D8", "U+104D9", "U+104DA", "U+104DB",
      "U+104DC", "U+104DD", "U+104DE", "U+104DF", "U+104E0", "U+104E1", "U+104E2", "U+104E3",
      "U+104E4", "U+104E5", "U+104E6", "U+104E7", "U+104E8", "U+104E9", "U+104EA", "U+104EB",
      "U+104EC", "U+104ED", "U+104EE", "U+104EF", "U+104F0", "U+104F1", "U+104F2", "U+104F3",
      "U+104F4", "U+104F5", "U+104F6", "U+104F7", "U+104F8", "U+104F9", "U+104FA", "U+104FB",
      "U+10597", "U+10598", "U+10599", "U+1059A", "U+1059B", "U+1059C", "U+1059D", "U+1059E",
      "U+1059F", "U+105A0", "U+105A1", "U+105A3", "U+105A4", "U+105A5", "U+105A6", "U+105A7",
      "U+105A8", "U+105A9", "U+105AA", "U+105AB", "U+105AC", "U+105AD", "U+105AE", "U+105AF",
      "U+105B0", "U+105B1", "U+105B3", "U+105B4", "U+105B5", "U+105B6", "U+105B7", "U+105B8",
      "U+105B9", "U+105BB", "U+105BC", "U+10CC0", "U+10CC1", "U+10CC2", "U+10CC3", "U+10CC4",
      "U+10CC5", "U+10CC6", "U+10CC7", "U+10CC8", "U+10CC9", "U+10CCA", "U+10CCB", "U+10CCC",
      "U+10CCD", "U+10CCE", "U+10CCF", "U+10CD0", "U+10CD1", "U+10CD2", "U+10CD3", "U+10CD4",
      "U+10CD5", "U+10CD6", "U+10CD7", "U+10CD8", "U+10CD9", "U+10CDA", "U+10CDB", "U+10CDC",
      "U+10CDD", "U+10CDE", "U+10CDF", "U+10CE0", "U+10CE1", "U+10CE2", "U+10CE3", "U+10CE4",
      "U+10CE5", "U+10CE6", "U+10CE7", "U+10CE8", "U+10CE9", "U+10CEA", "U+10CEB", "U+10CEC",
      "U+10CED", "U+10CEE", "U+10CEF", "U+10CF0", "U+10CF1", "U+10CF2", "U+118C0", "U+118C1",
      "U+118C2", "U+118C3", "U+118C4", "U+118C5", "U+118C6", "U+118C7", "U+118C8", "U+118C9",
      "U+118CA", "U+118CB", "U+118CC", "U+118CD", "U+118CE", "U+118CF", "U+118D0", "U+118D1",
      "U+118D2", "U+118D3", "U+118D4", "U+118D5", "U+118D6", "U+118D7", "U+118D8", "U+118D9",
      "U+118DA", "U+118DB", "U+118DC", "U+118DD", "U+118DE", "U+118DF", "U+16E60", "U+16E61",
      "U+16E62", "U+16E63", "U+16E64", "U+16E65", "U+16E66", "U+16E67", "U+16E68", "U+16E69",
      "U+16E6A", "U+16E6B", "U+16E6C", "U+16E6D", "U+16E6E", "U+16E6F", "U+16E70", "U+16E71",
      "U+16E72", "U+16E73", "U+16E74", "U+16E75", "U+16E76", "U+16E77", "U+16E78", "U+16E79",
      "U+16E7A", "U+16E7B", "U+16E7C", "U+16E7D", "U+16E7E", "U+16E7F", "U+1E922", "U+1E923",
      "U+1E924", "U+1E925", "U+1E926", "U+1E927", "U+1E928", "U+1E929", "U+1E92A", "U+1E92B",
      "U+1E92C", "U+1E92D", "U+1E92E", "U+1E92F", "U+1E930", "U+1E931", "U+1E932", "U+1E933",
      "U+1E934", "U+1E935", "U+1E936", "U+1E937", "U+1E938", "U+1E939", "U+1E93A", "U+1E93B",
      "U+1E93C", "U+1E93D", "U+1E93E", "U+1E93F", "U+1E940", "U+1E941", "U+1E942", "U+1E943"
    >>

\* the cased characters (_PyUnicode_IsCased)
Cased ==
    {
      "A", "B", "C", "D", "E", "F", "G", "H", "I", "J", "K", "L", "M", "N", "O", "P", "Q", "R",
      "S", "T", "U", "V", "W", "X", "Y", "Z", "a", "b", "c", "d", "e", "f", "g", "h", "i", "j",
      "k", "l", "m", "n", "o", "p", "q", "r", "s", "t", "u", "v", "w", "x", "y", "z", "ª", "µ",
      "º", "À", "Á", "Â", "Ã", "Ä", "Å", "Æ", "Ç", "È", "É", "Ê", "Ë", "Ì", "Í", "Î", "Ï", "Ð",
      "Ñ", "Ò", "Ó", "Ô", "Õ", "Ö", "Ø", "Ù", "Ú", "Û", "Ü", "Ý", "Þ", "ß", "à", "á", "â", "ã",
      "ä", "å", "æ", "ç", "è", "é", "ê", "ë", "ì", "í", "î", "ï", "ð", "ñ", "ò", "ó", "ô", "õ",
      "ö", "ø", "ù", "ú", "û", "ü", "ý", "þ", "ÿ", "U+0100", "U+0101", "U+0102", "U+0103",
      "U+0104", "U+0105", "U+0106", "U+0107", "U+0108", "U+0109", "U+010A", "U+010B", "U+010C",
      "U+010D", "U+010E", "U+010F", "U+0110", "U+0111", "U+0112", "U+0113", "U+0114", "U+0115",
      "U+0116", "U+0117", "U+0118", "U+0119", "U+011A", "U+011B", "U+011C", "U+011D", "U+011E",
      "U+011F", "U+0120", "U+0121", "U+0122", "U+0123", "U+0124", "U+0125", "U+0126", "U+0127",
      "U+0128", "U+0129", "U+012A", "U+012B", "U+012C", "U+012D", "U+012E", "U+012F", "U+0130",
      "U+0131", "U+0132", "U+0133", "U+0134", "U+0135", "U+0136", "U+0137", "U+0138", "U+0139",
      "U+013A", "U+013B", "U+013C", "U+013D", "U+013E", "U+013F", "U+0140", "U+0141", "U+0142",
      "U+0143", "U+0144", "U+0145", "U+0146", "U+0147", "U+0148", "U+0149", "U+014A", "U+014B",
      "U+014C", "U+014D", "U+014E", "U+014F", "U+0150", "U+0151", "U+0152", "U+0153", "U+0154",
      "U+0155", "U+0156", "U+0157", "U+0158", "U+0159", "U+015A", "U+015B", "U+015C", "U+015D",
      "U+015E", "U+015F", "U+0160", "U+0161", "U+0162", "U+0163", "U+0164", "U+0165", "U+0166",
      "U+0167", "U+0168", "U+0169", "U+016A", "U+016B", "U+016C", "U+016D", "U+016E", "U+016F",
      "U+0170", "U+0171", "U+0172", "U+0173", "U+0174", "U+0175", "U+0176", "U+0177", "U+0178",
      "U+0179", "U+017A", "U+017B", "U+017C", "U+017D", "U+017E", "U+017F", "ƀ", "Ɓ", "Ƃ", "ƃ",
      "Ƅ", "ƅ", "Ɔ", "Ƈ", "ƈ", "Ɖ", "Ɗ", "Ƌ", "ƌ", "ƍ", "Ǝ", "Ə", "Ɛ", "Ƒ", "ƒ", "Ɠ", "Ɣ", "ƕ",
      "Ɩ", "Ɨ", "Ƙ", "ƙ", "ƚ", "ƛ", "Ɯ", "Ɲ", "ƞ", "Ɵ", "Ơ", "ơ", "Ƣ", "ƣ", "Ƥ", "ƥ", "Ʀ", "Ƨ",
      "ƨ", "Ʃ", "ƪ", "ƫ", "Ƭ", "ƭ", "Ʈ", "Ư", "ư", "Ʊ", "Ʋ", "Ƴ", "ƴ", "Ƶ", "ƶ", "Ʒ", "Ƹ", "ƹ",
      "ƺ", "Ƽ", "ƽ", "ƾ", "ƿ", "Ǆ", "ǅ", "ǆ", "Ǉ", "ǈ", "ǉ", "Ǌ", "ǋ", "ǌ", "Ǎ", "ǎ", "Ǐ", "ǐ",
      "Ǒ", "ǒ", "Ǔ", "ǔ", "Ǖ", "ǖ", "Ǘ", "ǘ", "Ǚ", "ǚ", "Ǜ", "ǜ", "ǝ", "Ǟ", "ǟ", "Ǡ", "ǡ", "Ǣ",
      "ǣ", "Ǥ", "ǥ", "Ǧ", "ǧ", "Ǩ", "ǩ", "Ǫ", "ǫ", "Ǭ", "ǭ", "Ǯ", "ǯ", "ǰ", "Ǳ", "ǲ", "ǳ", "Ǵ",
      "ǵ", "Ƕ", "Ƿ", "Ǹ", "ǹ", "Ǻ", "ǻ", "Ǽ", "ǽ", "Ǿ", "ǿ", "U+0200", "U+0201", "U+0202",
      "U+0203", "U+0204", "U+0205", "U+0206", "U+0207", "U+0208", "U+0209", "U+020A", "U+020B",
      "U+020C", "U+020D", "U+020E", "U+020F", "U+0210", "U+0211", "U+0212", "U+0213", "U+0214",
      "U+0215", "U+0216", "U+0217", "U+0218", "U+0219", "U+021A", "U+021B", "U+021C", "U+021D",
      "U+021E", "U+021F", "U+0220", "U+0221", "U+0222", "U+0223", "U+0224", "U+0225", "U+0226",
      "U+0227", "U+0228", "U+0229", "U+022A", "U+022B", "U+022C", "U+022D", "U+022E", "U+022F",
      "U+0230", "U+0231", "U+0232", "U+0233", "U+0234", "U+0235", "U+0236", "U+0237", "U+0238",
      "U+0239", "U+023A", "U+023B", "U+023C", "U+023D", "U+023E", "U+023F", "U+0240", "U+0241",
      "U+0242", "U+0243", "U+0244", "U+0245", "U+0246", "U+0247", "U+0248", "U+0249", "U+024A",
      "U+024B", "U+024C", "U+024D", "U+024E", "U+024F", "U+0250", "U+0251", "U+0252", "U+0253",
      "U+0254", "U+0255", "U+0256", "U+0257", "U+0258", "U+0259", "U+025A", "U+025B", "U+025C",
      "U+025D", "U+025E", "U+025F", "U+0260", "U+0261", "U+0262", "U+0263", "U+0264", "U+0265",
      "U+0266", "U+0267", "U+0268", "U+0269", "U+026A", "U+026B", "U+026C", "U+026D", "U+026E",
      "U+026F", "U+0270", "U+0271", "U+0272", "U+0273", "U+0274", "U+0275", "U+0276", "U+0277",
      "U+0278", "U+0279", "U+027A", "U+027B", "U+027C", "U+027D", "U+027E", "U+027F", "ʀ", "ʁ",
      "ʂ", "ʃ", "ʄ", "ʅ", "ʆ", "ʇ", "ʈ", "ʉ", "ʊ", "ʋ", "ʌ", "ʍ", "ʎ", "ʏ", "ʐ", "ʑ", "ʒ", "ʓ",
      "ʕ", "ʖ", "ʗ", "ʘ", "ʙ", "ʚ", "ʛ", "ʜ", "ʝ", "ʞ", "ʟ", "ʠ", "ʡ", "ʢ", "ʣ", "ʤ", "ʥ", "ʦ",
      "ʧ", "ʨ", "ʩ", "ʪ", "ʫ", "ʬ", "ʭ", "ʮ", "ʯ", "ʰ", "ʱ", "ʲ", "ʳ", "ʴ", "ʵ", "ʶ", "ʷ", "ʸ",
      "ˀ", "ˁ", "ˠ", "ˡ", "ˢ", "ˣ", "ˤ", "U+0345", "U+0370", "U+0371", "U+0372", "U+0373",
      "U+0376", "U+0377", "U+037A", "U+037B", "U+037C", "U+037D", "U+037F", "Ά", "Έ", "Ή", "Ί",
      "Ό", "Ύ", "Ώ", "ΐ", "Α", "Β", "Γ", "Δ", "Ε", "Ζ", "Η", "Θ", "Ι", "Κ", "Λ", "Μ", "Ν", "Ξ",
      "Ο", "Π", "Ρ", "Σ", "Τ", "Υ", "Φ", "Χ", "Ψ", "Ω", "Ϊ", "Ϋ", "ά", "έ", "ή", "ί", "ΰ", "α",
      "β", "γ", "δ", "ε", "ζ", "η", "θ", "ι", "κ", "λ", "μ", "ν", "ξ", "ο", "π", "ρ", "ς", "σ",
      "τ", "υ", "φ", "χ", "ψ", "ω", "ϊ", "ϋ", "ό", "ύ", "ώ", "Ϗ", "ϐ", "ϑ", "ϒ", "ϓ", "ϔ", "ϕ",
      "ϖ", "ϗ", "Ϙ", "ϙ", "Ϛ", "ϛ", "Ϝ", "ϝ", "Ϟ", "ϟ", "Ϡ", "ϡ", "Ϣ", "ϣ", "Ϥ", "ϥ", "Ϧ", "ϧ",
      "Ϩ", "ϩ", "Ϫ", "ϫ", "Ϭ", "ϭ", "Ϯ", "ϯ", "ϰ", "ϱ", "ϲ", "ϳ", "ϴ", "ϵ", "Ϸ", "ϸ", "Ϲ", "Ϻ",
      "ϻ", "ϼ", "Ͻ", "Ͼ", "Ͽ", "U+0400", "U+0401", "U+0402", "U+0403", "U+0404", "U+0405",
      "U+0406", "U+0407", "U+0408", "U+0409", "U+040A", "U+040B", "U+040C", "U+040D", "U+040E",
      "U+040F", "U+0410", "U+0411", "U+0412", "U+0413", "U+0414", "U+0415", "U+0416", "U+0417",
      "U+0418", "U+0419", "U+041A", "U+041B", "U+041C", "U+041D", "U+041E", "U+041F", "U+0420",
      "U+0421", "U+0422", "U+0423", "U+0424", "U+0425", "U+0426", "U+0427", "U+0428", "U+0429",
      "U+042A", "U+042B", "U+042C", "U+042D", "U+042E", "U+042F", "U+0430", "U+0431", "U+0432",
      "U+0433", "U+0434", "U+0435", "U+0436", "U+0437", "U+0438", "U+0439", "U+043A", "U+043B",
      "U+043C", "U+043D", "U+043E", "U+043F", "U+0440", "U+0441", "U+0442", "U+0443", "U+0444",
      "U+0445", "U+0446", "U+0447", "U+0448", "U+0449", "U+044A", "U+044B", "U+044C", "U+044D",
      "U+044E", "U+044F", "U+0450", "U+0451", "U+0452", "U+0453", "U+0454", "U+0455", "U+0456",
      "U+0457", "U+0458", "U+0459", "U+045A", "U+045B", "U+045C", "U+045D", "U+045E", "U+045F",
      "U+0460", "U+0461", "U+0462", "U+0463", "U+0464", "U+0465", "U+0466", "U+0467", "U+0468",
      "U+0469", "U+046A", "U+046B", "U+046C", "U+046D", "U+046E", "U+046F", "U+0470", "U+0471",
      "U+0472", "U+0473", "U+0474", "U+0475", "U+0476", "U+0477", "U+0478", "U+0479", "U+047A",
      "U+047B", "U+047C", "U+047D", "U+047E", "U+047F", "Ҁ", "ҁ", "Ҋ", "ҋ", "Ҍ", "ҍ", "Ҏ", "ҏ",
      "Ґ", "ґ", "Ғ", "ғ", "Ҕ", "ҕ", "Җ", "җ", "Ҙ", "ҙ", "Қ", "қ", "Ҝ", "ҝ", "Ҟ", "ҟ", "Ҡ", "ҡ",
      "Ң", "ң", "Ҥ", "ҥ", "Ҧ", "ҧ", "Ҩ", "ҩ", "Ҫ", "ҫ", "Ҭ", "ҭ", "Ү", "ү", "Ұ", "ұ", "Ҳ", "ҳ",
      "Ҵ", "ҵ", "Ҷ", "ҷ", "Ҹ", "ҹ", "Һ", "һ", "Ҽ", "ҽ", "Ҿ", "ҿ", "Ӏ", "Ӂ", "ӂ", "Ӄ", "ӄ", "Ӆ",
      "ӆ", "Ӈ", "ӈ", "Ӊ", "ӊ", "Ӌ", "ӌ", "Ӎ", "ӎ", "ӏ", "Ӑ", "ӑ", "Ӓ", "ӓ", "Ӕ", "ӕ", "Ӗ", "ӗ",
      "Ә", "ә", "Ӛ", "ӛ", "Ӝ", "ӝ", "Ӟ", "ӟ", "Ӡ", "ӡ", "Ӣ", "ӣ", "Ӥ", "ӥ", "Ӧ", "ӧ", "Ө", "ө",
      "Ӫ", "ӫ", "Ӭ", "ӭ", "Ӯ", "ӯ", "Ӱ", "ӱ", "Ӳ", "ӳ", "Ӵ", "ӵ", "Ӷ", "ӷ", "Ӹ", "ӹ", "Ӻ", "ӻ",
      "Ӽ", "ӽ", "Ӿ", "ӿ", "U+0500", "U+0501", "U+0502", "U+0503", "U+0504", "U+0505", "U+0506",
      "U+0507", "U+0508", "U+0509", "U+050A", "U+050B", "U+050C", "U+050D", "U+050E", "U+050F",
      "U+0510", "U+0511", "U+0512", "U+0513", "U+0514", "U+0515", "U+0516", "U+0517", "U+0518",
      "U+0519", "U+051A", "U+051B", "U+051C", "U+051D", "U+051E", "U+051F", "U+0520", "U+0521",
      "U+0522", "U+0523", "U+0524", "U+0525", "U+0526", "U+0527", "U+0528", "U+0529", "U+052A",
      "U+052B", "U+052C", "U+052D", "U+052E", "U+052F", "U+0531", "U+0532", "U+0533", "U+0534",
      "U+0535", "U+0536", "U+0537", "U+0538", "U+0539", "U+053A", "U+053B", "U+053C", "U+053D",
      "U+053E", "U+053F", "U+0540", "U+0541", "U+0542", "U+0543", "U+0544", "U+0545", "U+0546",
      "U+0547", "U+0548", "U+0549", "U+054A", "U+054B", "U+054C", "U+054D", "U+054E", "U+054F",
      "U+0550", "U+0551", "U+0552", "U+0553", "U+0554", "U+0555", "U+0556", "U+0560", "U+0561",
      "U+0562", "U+0563", "U+0564", "U+0565", "U+0566", "U+0567", "U+0568", "U+0569", "U+056A",
      "U+056B", "U+056C", "U+056D", "U+056E", "U+056F", "U+0570", "U+0571", "U+0572", "U+0573",
      "U+0574", "U+0575", "U+0576", "U+0577", "U+0578", "U+0579", "U+057A", "U+057B", "U+057C",
      "U+057D", "U+057E", "U+057F", "ր", "ց", "ւ", "փ", "ք", "օ", "ֆ", "և", "ֈ", "Ⴀ", "Ⴁ", "Ⴂ",
      "Ⴃ", "Ⴄ", "Ⴅ", "Ⴆ", "Ⴇ", "Ⴈ", "Ⴉ", "Ⴊ", "Ⴋ", "Ⴌ", "Ⴍ", "Ⴎ", "Ⴏ", "Ⴐ", "Ⴑ", "Ⴒ", "Ⴓ", "Ⴔ",
      "Ⴕ", "Ⴖ", "Ⴗ", "Ⴘ", "Ⴙ", "Ⴚ", "Ⴛ", "Ⴜ", "Ⴝ", "Ⴞ", "Ⴟ", "Ⴠ", "Ⴡ", "Ⴢ", "Ⴣ", "Ⴤ", "Ⴥ", "Ⴧ",
      "Ⴭ", "ა", "ბ", "გ", "დ", "ე", "ვ", "ზ", "თ", "ი", "კ", "ლ", "მ", "ნ", "ო", "პ", "ჟ", "რ",
      "ს", "ტ", "უ", "ფ", "ქ", "ღ", "ყ", "შ", "ჩ", "ც", "ძ", "წ", "ჭ", "ხ", "ჯ", "ჰ", "ჱ", "ჲ",
      "ჳ", "ჴ", "ჵ", "ჶ", "ჷ", "ჸ", "ჹ", "ჺ", "ჽ", "ჾ", "ჿ", "Ꭰ", "Ꭱ", "Ꭲ", "Ꭳ", "Ꭴ", "Ꭵ", "Ꭶ",
      "Ꭷ", "Ꭸ", "Ꭹ", "Ꭺ", "Ꭻ", "Ꭼ", "Ꭽ", "Ꭾ", "Ꭿ", "Ꮀ", "Ꮁ", "Ꮂ", "Ꮃ", "Ꮄ", "Ꮅ", "Ꮆ", "Ꮇ", "Ꮈ",
      "Ꮉ", "Ꮊ", "Ꮋ", "Ꮌ", "Ꮍ", "Ꮎ", "Ꮏ", "Ꮐ", "Ꮑ", "Ꮒ", "Ꮓ", "Ꮔ", "Ꮕ", "Ꮖ", "Ꮗ", "Ꮘ", "Ꮙ", "Ꮚ",
      "Ꮛ", "Ꮜ", "Ꮝ", "Ꮞ", "Ꮟ", "Ꮠ", "Ꮡ", "Ꮢ", "Ꮣ", "Ꮤ", "Ꮥ", "Ꮦ", "Ꮧ", "Ꮨ", "Ꮩ", "Ꮪ", "Ꮫ", "Ꮬ",
      "Ꮭ", "Ꮮ", "Ꮯ", "Ꮰ", "Ꮱ", "Ꮲ", "Ꮳ", "Ꮴ", "Ꮵ", "Ꮶ", "Ꮷ", "Ꮸ", "Ꮹ", "Ꮺ", "Ꮻ", "Ꮼ", "Ꮽ", "Ꮾ",
      "Ꮿ", "Ᏸ", "Ᏹ", "Ᏺ", "Ᏻ", "Ᏼ", "Ᏽ", "ᏸ", "ᏹ", "ᏺ", "ᏻ", "ᏼ", "ᏽ", "ᲀ", "ᲁ", "ᲂ", "ᲃ", "ᲄ",
      "ᲅ", "ᲆ", "ᲇ", "ᲈ", "Ა", "Ბ", "Გ", "Დ", "Ე", "Ვ", "Ზ", "Თ", "Ი", "Კ", "Ლ", "Მ", "Ნ", "Ო",
      "Პ", "Ჟ", "Რ", "Ს", "Ტ", "Უ", "Ფ", "Ქ", "Ღ", "Ყ", "Შ", "Ჩ", "Ც", "Ძ", "Წ", "Ჭ", "Ხ", "Ჯ",
      "Ჰ", "Ჱ", "Ჲ", "Ჳ", "Ჴ", "Ჵ", "Ჶ", "Ჷ", "Ჸ", "Ჹ", "Ჺ", "Ჽ", "Ჾ", "Ჿ", "U+1D00", "U+1D01",
      "U+1D02", "U+1D03", "U+1D04", "U+1D05", "U+1D06", "U+1D07", "U+1D08", "U+1D09", "U+1D0A",
      "U+1D0B", "U+1D0C", "U+1D0D", "U+1D0E", "U+1D0F", "U+1D10", "U+1D11", "U+1D12", "U+1D13",
      "U+1D14", "U+1D15", "U+1D16", "U+1D17", "U+1D18", "U+1D19", "U+1D1A", "U+1D1B", "U+1D1C",
      "U+1D1D", "U+1D1E", "U+1D1F", "U+1D20", "U+1D21", "U+1D22", "U+1D23", "U+1D24", "U+1D25",
      "U+1D26", "U+1D27", "U+1D28", "U+1D29", "U+1D2A", "U+1D2B", "U+1D2C", "U+1D2D", "U+1D2E",
      "U+1D2F", "U+1D30", "U+1D31", "U+1D32", "U+1D33", "U+1D34", "U+1D35", "U+1D36", "U+1D37",
      "U+1D38", "U+1D39", "U+1D3A", "U+1D3B", "U+1D3C", "U+1D3D", "U+1D3E", "U+1D3F", "U+1D40",
      "U+1D41", "U+1D42", "U+1D43", "U+1D44", "U+1D45", "U+1D46", "U+1D47", "U+1D48", "U+1D49",
      "U+1D4A", "U+1D4B", "U+1D4C", "U+1D4D", "U+1D4E", "U+1D4F", "U+1D50", "U+1D51", "U+1D52",
      "U+1D53", "U+1D54", "U+1D55", "U+1D56", "U+1D57", "U+1D58", "U+1D59", "U+1D5A", "U+1D5B",
      "U+1D5C", "U+1D5D", "U+1D5E", "U+1D5F", "U+1D60", "U+1D61", "U+1D62", "U+1D63", "U+1D64",
      "U+1D65", "U+1D66", "U+1D67", "U+1D68", "U+1D69", "U+1D6A", "U+1D6B", "U+1D6C", "U+1D6D",
      "U+1D6E", "U+1D6F", "U+1D70", "U+1D71", "U+1D72", "U+1D73", "U+1D74", "U+1D75", "U+1D76",
      "U+1D77", "U+1D78", "U+1D79", "U+1D7A", "U+1D7B", "U+1D7C", "U+1D7D", "U+1D7E", "U+1D7F",
      "ᶀ", "ᶁ", "ᶂ", "ᶃ", "ᶄ", "ᶅ", "ᶆ", "ᶇ", "ᶈ", "ᶉ", "ᶊ", "ᶋ", "ᶌ", "ᶍ", "ᶎ", "ᶏ", "ᶐ", "ᶑ",
      "ᶒ", "ᶓ", "ᶔ", "ᶕ", "ᶖ", "ᶗ", "ᶘ", "ᶙ", "ᶚ", "ᶛ", "ᶜ", "ᶝ", "ᶞ", "ᶟ", "ᶠ", "ᶡ", "ᶢ", "ᶣ",
      "ᶤ", "ᶥ", "ᶦ", "ᶧ", "ᶨ", "ᶩ", "ᶪ", "ᶫ", "ᶬ", "ᶭ", "ᶮ", "ᶯ", "ᶰ", "ᶱ", "ᶲ", "ᶳ", "ᶴ", "ᶵ",
      "ᶶ", "ᶷ", "ᶸ", "ᶹ", "ᶺ", "ᶻ", "ᶼ", "ᶽ", "ᶾ", "ᶿ", "U+1E00", "U+1E01", "U+1E02", "U+1E03",
      "U+1E04", "U+1E05", "U+1E06", "U+1E07", "U+1E08", "U+1E09", "U+1E0A", "U+1E0B", "U+1E0C",
      "U+1E0D", "U+1E0E", "U+1E0F", "U+1E10", "U+1E11", "U+1E12", "U+1E13", "U+1E14", "U+1E15",
      "U+1E16", "U+1E17", "U+1E18", "U+1E19", "U+1E1A", "U+1E1B", "U+1E1C", "U+1E1D", "U+1E1E",
      "U+1E1F", "U+1E20", "U+1E21", "U+1E22", "U+1E23", "U+1E24", "U+1E25", "U+1E26", "U+1E27",
      "U+1E28", "U+1E29", "U+1E2A", "U+1E2B", "U+1E2C", "U+1E2D", "U+1E2E", "U+1E2F", "U+1E30",
      "U+1E31", "U+1E32", "U+1E33", "U+1E34", "U+1E35", "U+1E36", "U+1E37", "U+1E38", "U+1E39",
      "U+1E3A", "U+1E3B", "U+1E3C", "U+1E3D", "U+1E3E", "U+1E3F", "U+1E40", "U+1E41", "U+1E42",
      "U+1E43", "U+1E44", "U+1E45", "U+1E46", "U+1E47", "U+1E48", "U+1E49", "U+1E4A", "U+1E4B",
      "U+1E4C", "U+1E4D", "U+1E4E", "U+1E4F", "U+1E50", "U+1E51", "U+1E52", "U+1E53", "U+1E54",
      "U+1E55", "U+1E56", "U+1E57", "U+1E58", "U+1E59", "U+1E5A", "U+1E5B", "U+1E5C", "U+1E5D",
      "U+1E5E", "U+1E5F", "U+1E60", "U+1E61", "U+1E62", "U+1E63", "U+1E64", "U+1E65", "U+1E66",
      "U+1E67", "U+1E68", "U+1E69", "U+1E6A", "U+1E6B", "U+1E6C", "U+1E6D", "U+1E6E", "U+1E6F",
      "U+1E70", "U+1E71", "U+1E72", "U+1E73", "U+1E74", "U+1E75", "U+1E76", "U+1E77", "U+1E78",
      "U+1E79", "U+1E7A", "U+1E7B", "U+1E7C", "U+1E7D", "U+1E7E", "U+1E7F", "Ẁ", "ẁ", "Ẃ", "ẃ",
      "Ẅ", "ẅ", "Ẇ", "ẇ", "Ẉ", "ẉ", "Ẋ", "ẋ", "Ẍ", "ẍ", "Ẏ", "ẏ", "Ẑ", "ẑ", "Ẓ", "ẓ", "Ẕ", "ẕ",
      "ẖ", "ẗ", "ẘ", "ẙ", "ẚ", "ẛ", "ẜ", "ẝ", "ẞ", "ẟ", "Ạ", "ạ", "Ả", "ả", "Ấ", "ấ", "Ầ", "ầ",
      "Ẩ", "ẩ", "Ẫ", "ẫ", "Ậ", "ậ", "Ắ", "ắ", "Ằ", "ằ", "Ẳ", "ẳ", "Ẵ", "ẵ", "Ặ", "ặ", "Ẹ", "ẹ",
      "Ẻ", "ẻ", "Ẽ", "ẽ", "Ế", "ế", "Ề", "ề", "Ể", "ể", "Ễ", "ễ", "Ệ", "ệ", "Ỉ", "ỉ", "Ị", "ị",
      "Ọ", "ọ", "Ỏ", "ỏ", "Ố", "ố", "Ồ", "ồ", "Ổ", "ổ", "Ỗ", "ỗ", "Ộ", "ộ", "Ớ", "ớ", "Ờ", "ờ",
      "Ở", "ở", "Ỡ", "ỡ", "Ợ", "ợ", "Ụ", "ụ", "Ủ", "ủ", "Ứ", "ứ", "Ừ", "ừ", "Ử", "ử", "Ữ", "ữ",
      "Ự", "ự", "Ỳ", "ỳ", "Ỵ", "ỵ", "Ỷ", "ỷ", "Ỹ", "ỹ", "Ỻ", "ỻ", "Ỽ", "ỽ", "Ỿ", "ỿ", "U+1F00",
      "U+1F01", "U+1F02", "U+1F03", "U+1F04", "U+1F05", "U+1F06", "U+1F07", "U+1F08", "U+1F09",
      "U+1F0A", "U+1F0B", "U+1F0C", "U+1F0D", "U+1F0E", "U+1F0F", "U+1F10", "U+1F11", "U+1F12",
      "U+1F13", "U+1F14", "U+1F15", "U+1F18", "U+1F19", "U+1F1A", "U+1F1B", "U+1F1C", "U+1F1D",
      "U+1F20", "U+1F21", "U+1F22", "U+1F23", "U+1F24", "U+1F25", "U+1F26", "U+1F27", "U+1F28",
      "U+1F29", "U+1F2A", "U+1F2B", "U+1F2C", "U+1F2D", "U+1F2E", "U+1F2F", "U+1F30", "U+1F31",
      "U+1F32", "U+1F33", "U+1F34", "U+1F35", "U+1F36", "U+1F37", "U+1F38", "U+1F39", "U+1F3A",
      "U+1F3B", "U+1F3C", "U+1F3D", "U+1F3E", "U+1F3F", "U+1F40", "U+1F41", "U+1F42", "U+1F43",
      "U+1F44", "U+1F45", "U+1F48", "U+1F49", "U+1F4A", "U+1F4B", "U+1F4C", "U+1F4D", "U+1F50",
      "U+1F51", "U+1F52", "U+1F53", "U+1F54", "U+1F55", "U+1F56", "U+1F57", "U+1F59", "U+1F5B",
      "U+1F5D", "U+1F5F", "U+1F60", "U+1F61", "U+1F62", "U+1F63", "U+1F64", "U+1F65", "U+1F66",
      "U+1F67", "U+1F68", "U+1F69", "U+1F6A", "U+1F6B", "U+1F6C", "U+1F6D", "U+1F6E", "U+1F6F",
      "U+1F70", "U+1F71", "U+1F72", "U+1F73", "U+1F74", "U+1F75", "U+1F76", "U+1F77", "U+1F78",
      "U+1F79", "U+1F7A", "U+1F7B", "U+1F7C", "U+1F7D", "ᾀ", "ᾁ", "ᾂ", "ᾃ", "ᾄ", "ᾅ", "ᾆ", "ᾇ",
      "ᾈ", "ᾉ", "ᾊ", "ᾋ", "ᾌ", "ᾍ", "ᾎ", "ᾏ", "ᾐ", "ᾑ", "ᾒ", "ᾓ", "ᾔ", "ᾕ", "ᾖ", "ᾗ", "ᾘ", "ᾙ",
      "ᾚ", "ᾛ", "ᾜ", "ᾝ", "ᾞ", "ᾟ", "ᾠ", "ᾡ", "ᾢ", "ᾣ", "ᾤ", "ᾥ", "ᾦ", "ᾧ", "ᾨ", "ᾩ", "ᾪ", "ᾫ",
      "ᾬ", "ᾭ", "ᾮ", "ᾯ", "ᾰ", "ᾱ", "ᾲ", "ᾳ", "ᾴ", "ᾶ", "ᾷ", "Ᾰ", "Ᾱ", "Ὰ", "Ά", "ᾼ", "ι", "ῂ",
      "ῃ", "ῄ", "ῆ", "ῇ", "Ὲ", "Έ", "Ὴ", "Ή", "ῌ", "ῐ", "ῑ", "ῒ", "ΐ", "ῖ", "ῗ", "Ῐ", "Ῑ", "Ὶ",
      "Ί", "ῠ", "ῡ", "ῢ", "ΰ", "ῤ", "ῥ", "ῦ", "ῧ", "Ῠ", "Ῡ", "Ὺ", "Ύ", "Ῥ", "ῲ", "ῳ", "ῴ", "ῶ",
      "ῷ", "Ὸ", "Ό", "Ὼ", "Ώ", "ῼ", "U+2071", "U+207F", "ₐ", "ₑ", "ₒ", "ₓ", "ₔ", "ₕ", "ₖ", "ₗ",
      "ₘ", "ₙ", "ₚ", "ₛ", "ₜ", "U+2102", "U+2107", "U+210A", "U+210B", "U+210C", "U+210D",
      "U+210E", "U+210F", "U+2110", "U+2111", "U+2112", "U+2113", "U+2115", "U+2119", "U+211A",
      "U+211B", "U+211C", "U+211D", "U+2124", "U+2126", "U+2128", "U+212A", "U+212B", "U+212C",
      "U+212D", "U+212F", "U+2130", "U+2131", "U+2132", "U+2133", "U+2134", "U+2139", "U+213C",
      "U+213D", "U+213E", "U+213F", "U+2145", "U+2146", "U+2147", "U+2148", "U+2149", "U+214E",
      "U+2160", "U+2161", "U+2162", "U+2163", "U+2164", "U+2165", "U+2166", "U+2167", "U+2168",
      "U+2169", "U+216A", "U+216B", "U+216C", "U+216D", "U+216E", "U+216F", "U+2170", "U+2171",
      "U+2172", "U+2173", "U+2174", "U+2175", "U+2176", "U+2177", "U+2178", "U+2179", "U+217A",
      "U+217B", "U+217C", "U+217D", "U+217E", "U+217F", "Ↄ", "ↄ", "Ⓐ", "Ⓑ", "Ⓒ", "Ⓓ", "Ⓔ", "Ⓕ",
      "Ⓖ", "Ⓗ", "Ⓘ", "Ⓙ", "Ⓚ", "Ⓛ", "Ⓜ", "Ⓝ", "Ⓞ", "Ⓟ", "Ⓠ", "Ⓡ", "Ⓢ", "Ⓣ", "Ⓤ", "Ⓥ", "Ⓦ", "Ⓧ",
      "Ⓨ", "Ⓩ", "ⓐ", "ⓑ", "ⓒ", "ⓓ", "ⓔ", "ⓕ", "ⓖ", "ⓗ", "ⓘ", "ⓙ", "ⓚ", "ⓛ", "ⓜ", "ⓝ", "ⓞ", "ⓟ",
      "ⓠ", "ⓡ", "ⓢ", "ⓣ", "ⓤ", "ⓥ", "ⓦ", "ⓧ", "ⓨ", "ⓩ", "U+2C00", "U+2C01", "U+2C02", "U+2C03",
      "U+2C04", "U+2C05", "U+2C06", "U+2C07", "U+2C08", "U+2C09", "U+2C0A", "U+2C0B", "U+2C0C",
      "U+2C0D", "U+2C0E", "U+2C0F", "U+2C10", "U+2C11", "U+2C12", "U+2C13", "U+2C14", "U+2C15",
      "U+2C16", "U+2C17", "U+2C18", "U+2C19", "U+2C1A", "U+2C1B", "U+2C1C", "U+2C1D", "U+2C1E",
      "U+2C1F", "U+2C20", "U+2C21", "U+2C22", "U+2C23", "U+2C24", "U+2C25", "U+2C26", "U+2C27",
      "U+2C28", "U+2C29", "U+2C2A", "U+2C2B", "U+2C2C", "U+2C2D", "U+2C2E", "U+2C2F", "U+2C30",
      "U+2C31", "U+2C32", "U+2C33", "U+2C34", "U+2C35", "U+2C36", "U+2C37", "U+2C38", "U+2C39",
      "U+2C3A", "U+2C3B", "U+2C3C", "U+2C3D", "U+2C3E", "U+2C3F", "U+2C40", "U+2C41", "U+2C42",
      "U+2C43", "U+2C44", "U+2C45", "U+2C46", "U+2C47", "U+2C48", "U+2C49", "U+2C4A", "U+2C4B",
      "U+2C4C", "U+2C4D", "U+2C4E", "U+2C4F", "U+2C50", "U+2C51", "U+2C52", "U+2C53", "U+2C54",
      "U+2C55", "U+2C56", "U+2C57", "U+2C58", "U+2C59", "U+2C5A", "U+2C5B", "U+2C5C", "U+2C5D",
      "U+2C5E", "U+2C5F", "U+2C60", "U+2C61", "U+2C62", "U+2C63", "U+2C64", "U+2C65", "U+2C66",
      "U+2C67", "U+2C68", "U+2C69", "U+2C6A", "U+2C6B", "U+2C6C", "U+2C6D", "U+2C6E", "U+2C6F",
      "U+2C70", "U+2C71", "U+2C72", "U+2C73", "U+2C74", "U+2C75", "U+2C76", "U+2C77", "U+2C78",
      "U+2C79", "U+2C7A", "U+2C7B", "U+2C7C", "U+2C7D", "U+2C7E", "U+2C7F", "Ⲁ", "ⲁ", "Ⲃ", "ⲃ",
      "Ⲅ", "ⲅ", "Ⲇ", "ⲇ", "Ⲉ", "ⲉ", "Ⲋ", "ⲋ", "Ⲍ", "ⲍ", "Ⲏ", "ⲏ", "Ⲑ", "ⲑ", "Ⲓ", "ⲓ", "Ⲕ", "ⲕ",
      "Ⲗ", "ⲗ", "Ⲙ", "ⲙ", "Ⲛ", "ⲛ", "Ⲝ", "ⲝ", "Ⲟ", "ⲟ", "Ⲡ", "ⲡ", "Ⲣ", "ⲣ", "Ⲥ", "ⲥ", "Ⲧ", "ⲧ",
      "Ⲩ", "ⲩ", "Ⲫ", "ⲫ", "Ⲭ", "ⲭ", "Ⲯ", "ⲯ", "Ⲱ", "ⲱ", "Ⲳ", "ⲳ", "Ⲵ", "ⲵ", "Ⲷ", "ⲷ", "Ⲹ", "ⲹ",
      "Ⲻ", "ⲻ", "Ⲽ", "ⲽ", "Ⲿ", "ⲿ", "Ⳁ", "ⳁ", "Ⳃ", "ⳃ", "Ⳅ", "ⳅ", "Ⳇ", "ⳇ", "Ⳉ", "ⳉ", "Ⳋ", "ⳋ",
      "Ⳍ", "ⳍ", "Ⳏ", "ⳏ", "Ⳑ", "ⳑ", "Ⳓ", "ⳓ", "Ⳕ", "ⳕ", "Ⳗ", "ⳗ", "Ⳙ", "ⳙ", "Ⳛ", "ⳛ", "Ⳝ", "ⳝ",
      "Ⳟ", "ⳟ", "Ⳡ", "ⳡ", "Ⳣ", "ⳣ", "ⳤ", "Ⳬ", "ⳬ", "Ⳮ", "ⳮ", "Ⳳ", "ⳳ", "U+2D00", "U+2D01",
      "U+2D02", "U+2D03", "U+2D04", "U+2D05", "U+2D06", "U+2D07", "U+2D08", "U+2D09", "U+2D0A",
      "U+2D0B", "U+2D0C", "U+2D0D", "U+2D0E", "U+2D0F", "U+2D10", "U+2D11", "U+2D12", "U+2D13",
      "U+2D14", "U+2D15", "U+2D16", "U+2D17", "U+2D18", "U+2D19", "U+2D1A", "U+2D1B", "U+2D1C",
      "U+2D1D", "U+2D1E", "U+2D1F", "U+2D20", "U+2D21", "U+2D22", "U+2D23", "U+2D24", "U+2D25",
      "U+2D27", "U+2D2D", "U+A640", "U+A641", "U+A642", "U+A643", "U+A644", "U+A645", "U+A646",
      "U+A647", "U+A648", "U+A649", "U+A64A", "U+A64B", "U+A64C", "U+A64D", "U+A64E", "U+A64F",
      "U+A650", "U+A651", "U+A652", "U+A653", "U+A654", "U+A655", "U+A656", "U+A657", "U+A658",
      "U+A659", "U+A65A", "U+A65B", "U+A65C", "U+A65D", "U+A65E", "U+A65F", "U+A660", "U+A661",
      "U+A662", "U+A663", "U+A664", "U+A665", "U+A666", "U+A667", "U+A668", "U+A669", "U+A66A",
      "U+A66B", "U+A66C", "U+A66D", "Ꚁ", "ꚁ", "Ꚃ", "ꚃ", "Ꚅ", "ꚅ", "Ꚇ", "ꚇ", "Ꚉ", "ꚉ", "Ꚋ", "ꚋ",
      "Ꚍ", "ꚍ", "Ꚏ", "ꚏ", "Ꚑ", "ꚑ", "Ꚓ", "ꚓ", "Ꚕ", "ꚕ", "Ꚗ", "ꚗ", "Ꚙ", "ꚙ", "Ꚛ", "ꚛ", "ꚜ", "ꚝ",
      "U+A722", "U+A723", "U+A724", "U+A725", "U+A726", "U+A727", "U+A728", "U+A729", "U+A72A",
      "U+A72B", "U+A72C", "U+A72D", "U+A72E", "U+A72F", "U+A730", "U+A731", "U+A732", "U+A733",
      "U+A734", "U+A735", "U+A736", "U+A737", "U+A738", "U+A739", "U+A73A", "U+A73B", "U+A73C",
      "U+A73D", "U+A73E", "U+A73F", "U+A740", "U+A741", "U+A742", "U+A743", "U+A744", "U+A745",
      "U+A746", "U+A747", "U+A748", "U+A749", "U+A74A", "U+A74B", "U+A74C", "U+A74D", "U+A74E",
      "U+A74F", "U+A750", "U+A751", "U+A752", "U+A753", "U+A754", "U+A755", "U+A756", "U+A757",
      "U+A758", "U+A759", "U+A75A", "U+A75B", "U+A75C", "U+A75D", "U+A75E", "U+A75F", "U+A760",
      "U+A761", "U+A762", "U+A763", "U+A764", "U+A765", "U+A766", "U+A767", "U+A768", "U+A769",
      "U+A76A", "U+A76B", "U+A76C", "U+A76D", "U+A76E", "U+A76F", "U+A770", "U+A771", "U+A772",
      "U+A773", "U+A774", "U+A775", "U+A776", "U+A777", "U+A778", "U+A779", "U+A77A", "U+A77B",
      "U+A77C", "U+A77D", "U+A77E", "U+A77F", "Ꞁ", "ꞁ", "Ꞃ", "ꞃ", "Ꞅ", "ꞅ", "Ꞇ", "ꞇ", "Ꞌ", "ꞌ",
      "Ɥ", "ꞎ", "Ꞑ", "ꞑ", "Ꞓ", "ꞓ", "ꞔ", "ꞕ", "Ꞗ", "ꞗ", "Ꞙ", "ꞙ", "Ꞛ", "ꞛ", "Ꞝ", "ꞝ", "Ꞟ", "ꞟ",
      "Ꞡ", "ꞡ", "Ꞣ", "ꞣ", "Ꞥ", "ꞥ", "Ꞧ", "ꞧ", "Ꞩ", "ꞩ", "Ɦ", "Ɜ", "Ɡ", "Ɬ", "Ɪ", "ꞯ", "Ʞ", "Ʇ",
      "Ʝ", "Ꭓ", "Ꞵ", "ꞵ", "Ꞷ", "ꞷ", "Ꞹ", "ꞹ", "Ꞻ", "ꞻ", "Ꞽ", "ꞽ", "Ꞿ", "ꞿ", "Ꟁ", "ꟁ", "Ꟃ", "ꟃ",
      "Ꞔ", "Ʂ", "Ᶎ", "Ꟈ", "ꟈ", "Ꟊ", "ꟊ", "Ꟑ", "ꟑ", "ꟓ", "ꟕ", "Ꟗ", "ꟗ", "Ꟙ", "ꟙ", "Ꟶ", "ꟶ", "ꟸ",
      "ꟹ", "ꟺ", "U+AB30", "U+AB31", "U+AB32", "U+AB33", "U+AB34", "U+AB35", "U+AB36", "U+AB37",
      "U+AB38", "U+AB39", "U+AB3A", "U+AB3B", "U+AB3C", "U+AB3D", "U+AB3E", "U+AB3F", "U+AB40",
      "U+AB41", "U+AB42", "U+AB43", "U+AB44", "U+AB45", "U+AB46", "U+AB47", "U+AB48", "U+AB49",
      "U+AB4A", "U+AB4B", "U+AB4C", "U+AB4D", "U+AB4E", "U+AB4F", "U+AB50", "U+AB51", "U+AB52",
      "U+AB53", "U+AB54", "U+AB55", "U+AB56", "U+AB57", "U+AB58", "U+AB59", "U+AB5A", "U+AB5C",
      "U+AB5D", "U+AB5E", "U+AB5F", "U+AB60", "U+AB61", "U+AB62", "U+AB63", "U+AB64", "U+AB65",
      "U+AB66", "U+AB67", "U+AB68", "U+AB70", "U+AB71", "U+AB72", "U+AB73", "U+AB74", "U+AB75",
      "U+AB76", "U+AB77", "U+AB78", "U+AB79", "U+AB7A", "U+AB7B", "U+AB7C", "U+AB7D", "U+AB7E",
      "U+AB7F", "ꮀ", "ꮁ", "ꮂ", "ꮃ", "ꮄ", "ꮅ", "ꮆ", "ꮇ", "ꮈ", "ꮉ", "ꮊ", "ꮋ", "ꮌ", "ꮍ", "ꮎ", "ꮏ",
      "ꮐ", "ꮑ", "ꮒ", "ꮓ", "ꮔ", "ꮕ", "ꮖ", "ꮗ", "ꮘ", "ꮙ", "ꮚ", "ꮛ", "ꮜ", "ꮝ", "ꮞ", "ꮟ", "ꮠ", "ꮡ",
      "ꮢ", "ꮣ", "ꮤ", "ꮥ", "ꮦ", "ꮧ", "ꮨ", "ꮩ", "ꮪ", "ꮫ", "ꮬ", "ꮭ", "ꮮ", "ꮯ", "ꮰ", "ꮱ", "ꮲ", "ꮳ",
      "ꮴ", "ꮵ", "ꮶ", "ꮷ", "ꮸ", "ꮹ", "ꮺ", "ꮻ", "ꮼ", "ꮽ", "ꮾ", "ꮿ", "U+FB00", "U+FB01", "U+FB02",
      "U+FB03", "U+FB04", "U+FB05", "U+FB06", "U+FB13", "U+FB14", "U+FB15", "U+FB16", "U+FB17",
      "U+FF21", "U+FF22", "U+FF23", "U+FF24", "U+FF25", "U+FF26", "U+FF27", "U+FF28", "U+FF29",
      "U+FF2A", "U+FF2B", "U+FF2C", "U+FF2D", "U+FF2E", "U+FF2F", "U+FF30", "U+FF31", "U+FF32",
      "U+FF33", "U+FF34", "U+FF35", "U+FF36", "U+FF37", "U+FF38", "U+FF39", "U+FF3A", "U+FF41",
      "U+FF42", "U+FF43", "U+FF44", "U+FF45", "U+FF46", "U+FF47", "U+FF48", "U+FF49", "U+FF4A",
      "U+FF4B", "U+FF4C", "U+FF4D", "U+FF4E", "U+FF4F", "U+FF50", "U+FF51", "U+FF52", "U+FF53",
      "U+FF54", "U+FF55", "U+FF56", "U+FF57", "U+FF58", "U+FF59", "U+FF5A", "U+10400",
      "U+10401", "U+10402", "U+10403", "U+10404", "U+10405", "U+10406", "U+10407", "U+10408",
      "U+10409", "U+1040A", "U+1040B", "U+1040C", "U+1040D", "U+1040E", "U+1040F", "U+10410",
      "U+10411", "U+10412", "U+10413", "U+10414", "U+10415", "U+10416", "U+10417", "U+10418",
      "U+10419", "U+1041A", "U+1041B", "U+1041C", "U+1041D", "U+1041E", "U+1041F", "U+10420",
      "U+10421", "U+10422", "U+10423", "U+10424", "U+10425", "U+10426", "U+10427", "U+10428",
      "U+10429", "U+1042A", "U+1042B", "U+1042C", "U+1042D", "U+1042E", "U+1042F", "U+10430",
      "U+10431", "U+10432", "U+10433", "U+10434", "U+10435", "U+10436", "U+10437", "U+10438",
      "U+10439", "U+1043A", "U+1043B", "U+1043C", "U+1043D", "U+1043E", "U+1043F", "U+10440",
      "U+10441", "U+10442", "U+10443", "U+10444", "U+10445", "U+10446", "U+10447", "U+10448",
      "U+10449", "U+1044A", "U+1044B", "U+1044C", "U+1044D", "U+1044E", "U+1044F", "U+104B0",
      "U+104B1", "U+104B2", "U+104B3", "U+104B4", "U+104B5", "U+104B6", "U+104B7", "U+104B8",
      "U+104B9", "U+104BA", "U+104BB", "U+104BC", "U+104BD", "U+104BE", "U+104BF", "U+104C0",
      "U+104C1", "U+104C2", "U+104C3", "U+104C4", "U+104C5", "U+104C6", "U+104C7", "U+104C8",
      "U+104C9", "U+104CA", "U+104CB", "U+104CC", "U+104CD", "U+104CE", "U+104CF", "U+104D0",
      "U+104D1", "U+104D2", "U+104D3", "U+104D8", "U+104D9", "U+104DA", "U+104DB", "U+104DC",
      "U+104DD", "U+104DE", "U+104DF", "U+104E0", "U+104E1", "U+104E2", "U+104E3", "U+104E4",
      "U+104E5", "U+104E6", "U+104E7", "U+104E8", "U+104E9", "U+104EA", "U+104EB", "U+104EC",
      "U+104ED", "U+104EE", "U+104EF", "U+104F0", "U+104F1", "U+104F2", "U+104F3", "U+104F4",
      "U+104F5", "U+104F6", "U+104F7", "U+104F8", "U+104F9", "U+104FA", "U+104FB", "U+10570",
      "U+10571", "U+10572", "U+10573", "U+10574", "U+10575", "U+10576", "U+10577", "U+10578",
      "U+10579", "U+1057A", "U+1057C", "U+1057D", "U+1057E", "U+1057F", "U+10580", "U+10581",
      "U+10582", "U+10583", "U+10584", "U+10585", "U+10586", "U+10587", "U+10588", "U+10589",
      "U+1058A", "U+1058C", "U+1058D", "U+1058E", "U+1058F", "U+10590", "U+10591", "U+10592",
      "U+10594", "U+10595", "U+10597", "U+10598", "U+10599", "U+1059A", "U+1059B", "U+1059C",
      "U+1059D", "U+1059E", "U+1059F", "U+105A0", "U+105A1", "U+105A3", "U+105A4", "U+105A5",
      "U+105A6", "U+105A7", "U+105A8", "U+105A9", "U+105AA", "U+105AB", "U+105AC", "U+105AD",
      "U+105AE", "U+105AF", "U+105B0", "U+105B1", "U+105B3", "U+105B4", "U+105B5", "U+105B6",
      "U+105B7", "U+105B8", "U+105B9", "U+105BB", "U+105BC", "U+10780", "U+10783", "U+10784",
      "U+10785", "U+10787", "U+10788", "U+10789", "U+1078A", "U+1078B", "U+1078C", "U+1078D",
      "U+1078E", "U+1078F", "U+10790", "U+10791", "U+10792", "U+10793", "U+10794", "U+10795",
      "U+10796", "U+10797", "U+10798", "U+10799", "U+1079A", "U+1079B", "U+1079C", "U+1079D",
      "U+1079E", "U+1079F", "U+107A0", "U+107A1", "U+107A2", "U+107A3", "U+107A4", "U+107A5",
      "U+107A6", "U+107A7", "U+107A8", "U+107A9", "U+107AA", "U+107AB", "U+107AC", "U+107AD",
      "U+107AE", "U+107AF", "U+107B0", "U+107B2", "U+107B3", "U+107B4", "U+107B5", "U+107B6",
      "U+107B7", "U+107B8", "U+107B9", "U+107BA", "U+10C80", "U+10C81", "U+10C82", "U+10C83",
      "U+10C84", "U+10C85", "U+10C86", "U+10C87", "U+10C88", "U+10C89", "U+10C8A", "U+10C8B",
      "U+10C8C", "U+10C8D", "U+10C8E", "U+10C8F", "U+10C90", "U+10C91", "U+10C92", "U+10C93",
      "U+10C94", "U+10C95", "U+10C96", "U+10C97", "U+10C98", "U+10C99", "U+10C9A", "U+10C9B",
      "U+10C9C", "U+10C9D", "U+10C9E", "U+10C9F", "U+10CA0", "U+10CA1", "U+10CA2", "U+10CA3",
      "U+10CA4", "U+10CA5", "U+10CA6", "U+10CA7", "U+10CA8", "U+10CA9", "U+10CAA", "U+10CAB",
      "U+10CAC", "U+10CAD", "U+10CAE", "U+10CAF", "U+10CB0", "U+10CB1", "U+10CB2", "U+10CC0",
      "U+10CC1", "U+10CC2", "U+10CC3", "U+10CC4", "U+10CC5", "U+10CC6", "U+10CC7", "U+10CC8",
      "U+10CC9", "U+10CCA", "U+10CCB", "U+10CCC", "U+10CCD", "U+10CCE", "U+10CCF", "U+10CD0",
      "U+10CD1", "U+10CD2", "U+10CD3", "U+10CD4", "U+10CD5", "U+10CD6", "U+10CD7", "U+10CD8",
      "U+10CD9", "U+10CDA", "U+10CDB", "U+10CDC", "U+10CDD", "U+10CDE", "U+10CDF", "U+10CE0",
      "U+10CE1", "U+10CE2", "U+10CE3", "U+10CE4", "U+10CE5", "U+10CE6", "U+10CE7", "U+10CE8",
      "U+10CE9", "U+10CEA", "U+10CEB", "U+10CEC", "U+10CED", "U+10CEE", "U+10CEF", "U+10CF0",
      "U+10CF1", "U+10CF2", "U+118A0", "U+118A1", "U+118A2", "U+118A3", "U+118A4", "U+118A5",
      "U+118A6", "U+118A7", "U+118A8", "U+118A9", "U+118AA", "U+118AB", "U+118AC", "U+118AD",
      "U+118AE", "U+118AF", "U+118B0", "U+118B1", "U+118B2", "U+118B3", "U+118B4", "U+118B5",
      "U+118B6", "U+118B7", "U+118B8", "U+118B9", "U+118BA", "U+118BB", "U+118BC", "U+118BD",
      "U+118BE", "U+118BF", "U+118C0", "U+118C1", "U+118C2", "U+118C3", "U+118C4", "U+118C5",
      "U+118C6", "U+118C7", "U+118C8", "U+118C9", "U+118CA", "U+118CB", "U+118CC", "U+118CD",
      "U+118CE", "U+118CF", "U+118D0", "U+118D1", "U+118D2", "U+118D3", "U+118D4", "U+118D5",
      "U+118D6", "U+118D7", "U+118D8", "U+118D9", "U+118DA", "U+118DB", "U+118DC", "U+118DD",
      "U+118DE", "U+118DF", "U+16E40", "U+16E41", "U+16E42", "U+16E43", "U+16E44", "U+16E45",
      "U+16E46", "U+16E47", "U+16E48", "U+16E49", "U+16E4A", "U+16E4B", "U+16E4C", "U+16E4D",
      "U+16E4E", "U+16E4F", "U+16E50", "U+16E51", "U+16E52", "U+16E53", "U+16E54", "U+16E55",
      "U+16E56", "U+16E57", "U+16E58", "U+16E59", "U+16E5A", "U+16E5B", "U+16E5C", "U+16E5D",
      "U+16E5E", "U+16E5F", "U+16E60", "U+16E61", "U+16E62", "U+16E63", "U+16E64", "U+16E65",
      "U+16E66", "U+16E67", "U+16E68", "U+16E69", "U+16E6A", "U+16E6B", "U+16E6C", "U+16E6D",
      "U+16E6E", "U+16E6F", "U+16E70", "U+16E71", "U+16E72", "U+16E73", "U+16E74", "U+16E75",
      "U+16E76", "U+16E77", "U+16E78", "U+16E79", "U+16E7A", "U+16E7B", "U+16E7C", "U+16E7D",
      "U+16E7E", "U+16E7F", "U+1D400", "U+1D401", "U+1D402", "U+1D403", "U+1D404", "U+1D405",
      "U+1D406", "U+1D407", "U+1D408", "U+1D409", "U+1D40A", "U+1D40B", "U+1D40C", "U+1D40D",
      "U+1D40E", "U+1D40F", "U+1D410", "U+1D411", "U+1D412", "U+1D413", "U+1D414", "U+1D415",
      "U+1D416", "U+1D417", "U+1D418", "U+1D419", "U+1D41A", "U+1D41B", "U+1D41C", "U+1D41D",
      "U+1D41E", "U+1D41F", "U+1D420", "U+1D421", "U+1D422", "U+1D423", "U+1D424", "U+1D425",
      "U+1D426", "U+1D427", "U+1D428", "U+1D429", "U+1D42A", "U+1D42B", "U+1D42C", "U+1D42D",
      "U+1D42E", "U+1D42F", "U+1D430", "U+1D431", "U+1D432", "U+1D433", "U+1D434", "U+1D435",
      "U+1D436", "U+1D437", "U+1D438", "U+1D439", "U+1D43A", "U+1D43B", "U+1D43C", "U+1D43D",
      "U+1D43E", "U+1D43F", "U+1D440", "U+1D441", "U+1D442", "U+1D443", "U+1D444", "U+1D445",
      "U+1D446", "U+1D447", "U+1D448", "U+1D449", "U+1D44A", "U+1D44B", "U+1D44C", "U+1D44D",
      "U+1D44E", "U+1D44F", "U+1D450", "U+1D451", "U+1D452", "U+1D453", "U+1D454", "U+1D456",
      "U+1D457", "U+1D458", "U+1D459", "U+1D45A", "U+1D45B", "U+1D45C", "U+1D45D", "U+1D45E",
      "U+1D45F", "U+1D460", "U+1D461", "U+1D462", "U+1D463", "U+1D464", "U+1D465", "U+1D466",
      "U+1D467", "U+1D468", "U+1D469", "U+1D46A", "U+1D46B", "U+1D46C", "U+1D46D", "U+1D46E",
      "U+1D46F", "U+1D470", "U+1D471", "U+1D472", "U+1D473", "U+1D474", "U+1D475", "U+1D476",
      "U+1D477", "U+1D478", "U+1D479", "U+1D47A", "U+1D47B", "U+1D47C", "U+1D47D", "U+1D47E",
      "U+1D47F", "U+1D480", "U+1D481", "U+1D482", "U+1D483", "U+1D484", "U+1D485", "U+1D486",
      "U+1D487", "U+1D488", "U+1D489", "U+1D48A", "U+1D48B", "U+1D48C", "U+1D48D", "U+1D48E",
      "U+1D48F", "U+1D490", "U+1D491", "U+1D492", "U+1D493", "U+1D494", "U+1D495", "U+1D496",
      "U+1D497", "U+1D498", "U+1D499", "U+1D49A", "U+1D49B", "U+1D49C", "U+1D49E", "U+1D49F",
      "U+1D4A2", "U+1D4A5", "U+1D4A6", "U+1D4A9", "U+1D4AA", "U+1D4AB", "U+1D4AC", "U+1D4AE",
      "U+1D4AF", "U+1D4B0", "U+1D4B1", "U+1D4B2", "U+1D4B3", "U+1D4B4", "U+1D4B5", "U+1D4B6",
      "U+1D4B7", "U+1D4B8", "U+1D4B9", "U+1D4BB", "U+1D4BD", "U+1D4BE", "U+1D4BF", "U+1D4C0",
      "U+1D4C1", "U+1D4C2", "U+1D4C3", "U+1D4C5", "U+1D4C6", "U+1D4C7", "U+1D4C8", "U+1D4C9",
      "U+1D4CA", "U+1D4CB", "U+1D4CC", "U+1D4CD", "U+1D4CE", "U+1D4CF", "U+1D4D0", "U+1D4D1",
      "U+1D4D2", "U+1D4D3", "U+1D4D4", "U+1D4D5", "U+1D4D6", "U+1D4D7", "U+1D4D8", "U+1D4D9",
      "U+1D4DA", "U+1D4DB", "U+1D4DC", "U+1D4DD", "U+1D4DE", "U+1D4DF", "U+1D4E0", "U+1D4E1",
      "U+1D4E2", "U+1D4E3", "U+1D4E4", "U+1D4E5", "U+1D4E6", "U+1D4E7", "U+1D4E8", "U+1D4E9",
      "U+1D4EA", "U+1D4EB", "U+1D4EC", "U+1D4ED", "U+1D4EE", "U+1D4EF", "U+1D4F0", "U+1D4F1",
      "U+1D4F2", "U+1D4F3", "U+1D4F4", "U+1D4F5", "U+1D4F6", "U+1D4F7", "U+1D4F8", "U+1D4F9",
      "U+1D4FA", "U+1D4FB", "U+1D4FC", "U+1D4FD", "U+1D4FE", "U+1D4FF", "U+1D500", "U+1D501",
      "U+1D502", "U+1D503", "U+1D504", "U+1D505", "U+1D507", "U+1D508", "U+1D509", "U+1D50A",
      "U+1D50D", "U+1D50E", "U+1D50F", "U+1D510", "U+1D511", "U+1D512", "U+1D513", "U+1D514",
      "U+1D516", "U+1D517", "U+1D518", "U+1D519", "U+1D51A", "U+1D51B", "U+1D51C", "U+1D51E",
      "U+1D51F", "U+1D520", "U+1D521", "U+1D522", "U+1D523", "U+1D524", "U+1D525", "U+1D526",
      "U+1D527", "U+1D528", "U+1D529", "U+1D52A", "U+1D52B", "U+1D52C", "U+1D52D", "U+1D52E",
      "U+1D52F", "U+1D530", "U+1D531", "U+1D532", "U+1D533", "U+1D534", "U+1D535", "U+1D536",
      "U+1D537", "U+1D538", "U+1D539", "U+1D53B", "U+1D53C", "U+1D53D", "U+1D53E", "U+1D540",
      "U+1D541", "U+1D542", "U+1D543", "U+1D544", "U+1D546", "U+1D54A", "U+1D54B", "U+1D54C",
      "U+1D54D", "U+1D54E", "U+1D54F", "U+1D550", "U+1D552", "U+1D553", "U+1D554", "U+1D555",
      "U+1D556", "U+1D557", "U+1D558", "U+1D559", "U+1D55A", "U+1D55B", "U+1D55C", "U+1D55D",
      "U+1D55E", "U+1D55F", "U+1D560", "U+1D561", "U+1D562", "U+1D563", "U+1D564", "U+1D565",
      "U+1D566", "U+1D567", "U+1D568", "U+1D569", "U+1D56A", "U+1D56B", "U+1D56C", "U+1D56D",
      "U+1D56E", "U+1D56F", "U+1D570", "U+1D571", "U+1D572", "U+1D573", "U+1D574", "U+1D575",
      "U+1D576", "U+1D577", "U+1D578", "U+1D579", "U+1D57A", "U+1D57B", "U+1D57C", "U+1D57D",
      "U+1D57E", "U+1D57F", "U+1D580", "U+1D581", "U+1D582", "U+1D583", "U+1D584", "U+1D585",
      "U+1D586", "U+1D587", "U+1D588", "U+1D589", "U+1D58A", "U+1D58B", "U+1D58C", "U+1D58D",
      "U+1D58E", "U+1D58F", "U+1D590", "U+1D591", "U+1D592", "U+1D593", "U+1D594", "U+1D595",
      "U+1D596", "U+1D597", "U+1D598", "U+1D599", "U+1D59A", "U+1D59B", "U+1D59C", "U+1D59D",
      "U+1D59E", "U+1D59F", "U+1D5A0", "U+1D5A1", "U+1D5A2", "U+1D5A3", "U+1D5A4", "U+1D5A5",
      "U+1D5A6", "U+1D5A7", "U+1D5A8", "U+1D5A9", "U+1D5AA", "U+1D5AB", "U+1D5AC", "U+1D5AD",
      "U+1D5AE", "U+1D5AF", "U+1D5B0", "U+1D5B1", "U+1D5B2", "U+1D5B3", "U+1D5B4", "U+1D5B5",
      "U+1D5B6", "U+1D5B7", "U+1D5B8", "U+1D5B9", "U+1D5BA", "U+1D5BB", "U+1D5BC", "U+1D5BD",
      "U+1D5BE", "U+1D5BF", "U+1D5C0", "U+1D5C1", "U+1D5C2", "U+1D5C3", "U+1D5C4", "U+1D5C5",
      "U+1D5C6", "U+1D5C7", "U+1D5C8", "U+1D5C9", "U+1D5CA", "U+1D5CB", "U+1D5CC", "U+1D5CD",
      "U+1D5CE", "U+1D5CF", "U+1D5D0", "U+1D5D1", "U+1D5D2", "U+1D5D3", "U+1D5D4", "U+1D5D5",
      "U+1D5D6", "U+1D5D7", "U+1D5D8", "U+1D5D9", "U+1D5DA", "U+1D5DB", "U+1D5DC", "U+1D5DD",
      "U+1D5DE", "U+1D5DF", "U+1D5E0", "U+1D5E1", "U+1D5E2", "U+1D5E3", "U+1D5E4", "U+1D5E5",
      "U+1D5E6", "U+1D5E7", "U+1D5E8", "U+1D5E9", "U+1D5EA", "U+1D5EB", "U+1D5EC", "U+1D5ED",
      "U+1D5EE", "U+1D5EF", "U+1D5F0", "U+1D5F1", "U+1D5F2", "U+1D5F3", "U+1D5F4", "U+1D5F5",
      "U+1D5F6", "U+1D5F7", "U+1D5F8", "U+1D5F9", "U+1D5FA", "U+1D5FB", "U+1D5FC", "U+1D5FD",
      "U+1D5FE", "U+1D5FF", "U+1D600", "U+1D601", "U+1D602", "U+1D603", "U+1D604", "U+1D605",
      "U+1D606", "U+1D607", "U+1D608", "U+1D609", "U+1D60A", "U+1D60B", "U+1D60C", "U+1D60D",
      "U+1D60E", "U+1D60F", "U+1D610", "U+1D611", "U+1D612", "U+1D613", "U+1D614", "U+1D615",
      "U+1D616", "U+1D617", "U+1D618", "U+1D619", "U+1D61A", "U+1D61B", "U+1D61C", "U+1D61D",
      "U+1D61E", "U+1D61F", "U+1D620", "U+1D621", "U+1D622", "U+1D623", "U+1D624", "U+1D625",
      "U+1D626", "U+1D627", "U+1D628", "U+1D629", "U+1D62A", "U+1D62B", "U+1D62C", "U+1D62D",
      "U+1D62E", "U+1D62F", "U+1D630", "U+1D631", "U+1D632", "U+1D633", "U+1D634", "U+1D635",
      "U+1D636", "U+1D637", "U+1D638", "U+1D639", "U+1D63A", "U+1D63B", "U+1D63C", "U+1D63D",
      "U+1D63E", "U+1D63F", "U+1D640", "U+1D641", "U+1D642", "U+1D643", "U+1D644", "U+1D645",
      "U+1D646", "U+1D647", "U+1D648", "U+1D649", "U+1D64A", "U+1D64B", "U+1D64C", "U+1D64D",
      "U+1D64E", "U+1D64F", "U+1D650", "U+1D651", "U+1D652", "U+1D653", "U+1D654", "U+1D655",
      "U+1D656", "U+1D657", "U+1D658", "U+1D659", "U+1D65A", "U+1D65B", "U+1D65C", "U+1D65D",
      "U+1D65E", "U+1D65F", "U+1D660", "U+1D661", "U+1D662", "U+1D663", "U+1D664", "U+1D665",
      "U+1D666", "U+1D667", "U+1D668", "U+1D669", "U+1D66A", "U+1D66B", "U+1D66C", "U+1D66D",
      "U+1D66E", "U+1D66F", "U+1D670", "U+1D671", "U+1D672", "U+1D673", "U+1D674", "U+1D675",
      "U+1D676", "U+1D677", "U+1D678", "U+1D679", "U+1D67A", "U+1D67B", "U+1D67C", "U+1D67D",
      "U+1D67E", "U+1D67F", "U+1D680", "U+1D681", "U+1D682", "U+1D683", "U+1D684", "U+1D685",
      "U+1D686", "U+1D687", "U+1D688", "U+1D689", "U+1D68A", "U+1D68B", "U+1D68C", "U+1D68D",
      "U+1D68E", "U+1D68F", "U+1D690", "U+1D691", "U+1D692", "U+1D693", "U+1D694", "U+1D695",
      "U+1D696", "U+1D697", "U+1D698", "U+1D699", "U+1D69A", "U+1D69B", "U+1D69C", "U+1D69D",
      "U+1D69E", "U+1D69F", "U+1D6A0", "U+1D6A1", "U+1D6A2", "U+1D6A3", "U+1D6A4", "U+1D6A5",
      "U+1D6A8", "U+1D6A9", "U+1D6AA", "U+1D6AB", "U+1D6AC", "U+1D6AD", "U+1D6AE", "U+1D6AF",
      "U+1D6B0", "U+1D6B1", "U+1D6B2", "U+1D6B3", "U+1D6B4", "U+1D6B5", "U+1D6B6", "U+1D6B7",
      "U+1D6B8", "U+1D6B9", "U+1D6BA", "U+1D6BB", "U+1D6BC", "U+1D6BD", "U+1D6BE", "U+1D6BF",
      "U+1D6C0", "U+1D6C2", "U+1D6C3", "U+1D6C4", "U+1D6C5", "U+1D6C6", "U+1D6C7", "U+1D6C8",
      "U+1D6C9", "U+1D6CA", "U+1D6CB", "U+1D6CC", "U+1D6CD", "U+1D6CE", "U+1D6CF", "U+1D6D0",
      "U+1D6D1", "U+1D6D2", "U+1D6D3", "U+1D6D4", "U+1D6D5", "U+1D6D6", "U+1D6D7", "U+1D6D8",
      "U+1D6D9", "U+1D6DA", "U+1D6DC", "U+1D6DD", "U+1D6DE", "U+1D6DF", "U+1D6E0", "U+1D6E1",
      "U+1D6E2", "U+1D6E3", "U+1D6E4", "U+1D6E5", "U+1D6E6", "U+1D6E7", "U+1D6E8", "U+1D6E9",
      "U+1D6EA", "U+1D6EB", "U+1D6EC", "U+1D6ED", "U+1D6EE", "U+1D6EF", "U+1D6F0", "U+1D6F1",
      "U+1D6F2", "U+1D6F3", "U+1D6F4", "U+1D6F5", "U+1D6F6", "U+1D6F7", "U+1D6F8", "U+1D6F9",
      "U+1D6FA", "U+1D6FC", "U+1D6FD", "U+1D6FE", "U+1D6FF", "U+1D700", "U+1D701", "U+1D702",
      "U+1D703", "U+1D704", "U+1D705", "U+1D706", "U+1D707", "U+1D708", "U+1D709", "U+1D70A",
      "U+1D70B", "U+1D70C", "U+1D70D", "U+1D70E", "U+1D70F", "U+1D710", "U+1D711", "U+1D712",
      "U+1D713", "U+1D714", "U+1D716", "U+1D717", "U+1D718", "U+1D719", "U+1D71A", "U+1D71B",
      "U+1D71C", "U+1D71D", "U+1D71E", "U+1D71F", "U+1D720", "U+1D721", "U+1D722", "U+1D723",
      "U+1D724", "U+1D725", "U+1D726", "U+1D727", "U+1D728", "U+1D729", "U+1D72A", "U+1D72B",
      "U+1D72C", "U+1D72D", "U+1D72E", "U+1D72F", "U+1D730", "U+1D731", "U+1D732", "U+1D733",
      "U+1D734", "U+1D736", "U+1D737", "U+1D738", "U+1D739", "U+1D73A", "U+1D73B", "U+1D73C",
      "U+1D73D", "U+1D73E", "U+1D73F", "U+1D740", "U+1D741", "U+1D742", "U+1D743", "U+1D744",
      "U+1D745", "U+1D746", "U+1D747", "U+1D748", "U+1D749", "U+1D74A", "U+1D74B", "U+1D74C",
      "U+1D74D", "U+1D74E", "U+1D750", "U+1D751", "U+1D752", "U+1D753", "U+1D754", "U+1D755",
      "U+1D756", "U+1D757", "U+1D758", "U+1D759", "U+1D75A", "U+1D75B", "U+1D75C", "U+1D75D",
      "U+1D75E", "U+1D75F", "U+1D760", "U+1D761", "U+1D762", "U+1D763", "U+1D764", "U+1D765",
      "U+1D766", "U+1D767", "U+1D768", "U+1D769", "U+1D76A", "U+1D76B", "U+1D76C", "U+1D76D",
      "U+1D76E", "U+1D770", "U+1D771", "U+1D772", "U+1D773", "U+1D774", "U+1D775", "U+1D776",
      "U+1D777", "U+1D778", "U+1D779", "U+1D77A", "U+1D77B", "U+1D77C", "U+1D77D", "U+1D77E",
      "U+1D77F", "U+1D780", "U+1D781", "U+1D782", "U+1D783", "U+1D784", "U+1D785", "U+1D786",
      "U+1D787", "U+1D788", "U+1D78A", "U+1D78B", "U+1D78C", "U+1D78D", "U+1D78E", "U+1D78F",
      "U+1D790", "U+1D791", "U+1D792", "U+1D793", "U+1D794", "U+1D795", "U+1D796", "U+1D797",
      "U+1D798", "U+1D799", "U+1D79A", "U+1D79B", "U+1D79C", "U+1D79D", "U+1D79E", "U+1D79F",
      "U+1D7A0", "U+1D7A1", "U+1D7A2", "U+1D7A3", "U+1D7A4", "U+1D7A5", "U+1D7A6", "U+1D7A7",
      "U+1D7A8", "U+1D7AA", "U+1D7AB", "U+1D7AC", "U+1D7AD", "U+1D7AE", "U+1D7AF", "U+1D7B0",
      "U+1D7B1", "U+1D7B2", "U+1D7B3", "U+1D7B4", "U+1D7B5", "U+1D7B6", "U+1D7B7", "U+1D7B8",
      "U+1D7B9", "U+1D7BA", "U+1D7BB", "U+1D7BC", "U+1D7BD", "U+1D7BE", "U+1D7BF", "U+1D7C0",
      "U+1D7C1", "U+1D7C2", "U+1D7C4", "U+1D7C5", "U+1D7C6", "U+1D7C7", "U+1D7C8", "U+1D7C9",
      "U+1D7CA", "U+1D7CB", "U+1DF00", "U+1DF01", "U+1DF02", "U+1DF03", "U+1DF04", "U+1DF05",
      "U+1DF06", "U+1DF07", "U+1DF08", "U+1DF09", "U+1DF0B", "U+1DF0C", "U+1DF0D", "U+1DF0E",
      "U+1DF0F", "U+1DF10", "U+1DF11", "U+1DF12", "U+1DF13", "U+1DF14", "U+1DF15", "U+1DF16",
      "U+1DF17", "U+1DF18", "U+1DF19", "U+1DF1A", "U+1DF1B", "U+1DF1C", "U+1DF1D", "U+1DF1E",
      "U+1E900", "U+1E901", "U+1E902", "U+1E903", "U+1E904", "U+1E905", "U+1E906", "U+1E907",
      "U+1E908", "U+1E909", "U+1E90A", "U+1E90B", "U+1E90C", "U+1E90D", "U+1E90E", "U+1E90F",
      "U+1E910", "U+1E911", "U+1E912", "U+1E913", "U+1E914", "U+1E915", "U+1E916", "U+1E917",
      "U+1E918", "U+1E919", "U+1E91A", "U+1E91B", "U+1E91C", "U+1E91D", "U+1E91E", "U+1E91F",
      "U+1E920", "U+1E921", "U+1E922", "U+1E923", "U+1E924", "U+1E925", "U+1E926", "U+1E927",
      "U+1E928", "U+1E929", "U+1E92A", "U+1E92B", "U+1E92C", "U+1E92D", "U+1E92E", "U+1E92F",
      "U+1E930", "U+1E931", "U+1E932", "U+1E933", "U+1E934", "U+1E935", "U+1E936", "U+1E937",
      "U+1E938", "U+1E939", "U+1E93A", "U+1E93B", "U+1E93C", "U+1E93D", "U+1E93E", "U+1E93F",
      "U+1E940", "U+1E941", "U+1E942", "U+1E943", "U+1F130", "U+1F131", "U+1F132", "U+1F133",
      "U+1F134", "U+1F135", "U+1F136", "U+1F137", "U+1F138", "U+1F139", "U+1F13A", "U+1F13B",
      "U+1F13C", "U+1F13D", "U+1F13E", "U+1F13F", "U+1F140", "U+1F141", "U+1F142", "U+1F143",
      "U+1F144", "U+1F145", "U+1F146", "U+1F147", "U+1F148", "U+1F149", "U+1F150", "U+1F151",
      "U+1F152", "U+1F153", "U+1F154", "U+1F155", "U+1F156", "U+1F157", "U+1F158", "U+1F159",
      "U+1F15A", "U+1F15B", "U+1F15C", "U+1F15D", "U+1F15E", "U+1F15F", "U+1F160", "U+1F161",
      "U+1F162", "U+1F163", "U+1F164", "U+1F165", "U+1F166", "U+1F167", "U+1F168", "U+1F169",
      "U+1F170", "U+1F171", "U+1F172", "U+1F173", "U+1F174", "U+1F175", "U+1F176", "U+1F177",
      "U+1F178", "U+1F179", "U+1F17A", "U+1F17B", "U+1F17C", "U+1F17D", "U+1F17E", "U+1F17F",
      "U+1F180", "U+1F181", "U+1F182", "U+1F183", "U+1F184", "U+1F185", "U+1F186", "U+1F187",
      "U+1F188", "U+1F189"
    }

\* the case-ignorable characters (_PyUnicode_IsCaseIgnorable)
CaseIgnorable ==
    {
      "'", ".", ":", "^", "U+0060", "¨", "­", "¯", "´", "·", "¸", "ʰ", "ʱ", "ʲ", "ʳ", "ʴ", "ʵ",
      "ʶ", "ʷ", "ʸ", "ʹ", "ʺ", "ʻ", "ʼ", "ʽ", "ʾ", "ʿ", "ˀ", "ˁ", "˂", "˃", "˄", "˅", "ˆ", "ˇ",
      "ˈ", "ˉ", "ˊ", "ˋ", "ˌ", "ˍ", "ˎ", "ˏ", "ː", "ˑ", "˒", "˓", "˔", "˕", "˖", "˗", "˘", "˙",
      "˚", "˛", "˜", "˝", "˞", "˟", "ˠ", "ˡ", "ˢ", "ˣ", "ˤ", "˥", "˦", "˧", "˨", "˩", "˪", "˫",
      "ˬ", "˭", "ˮ", "˯", "˰", "˱", "˲", "˳", "˴", "˵", "˶", "˷", "˸", "˹", "˺", "˻", "˼", "˽",
      "˾", "˿", "U+0300", "U+0301", "U+0302", "U+0303", "U+0304", "U+0305", "U+0306", "U+0307",
      "U+0308", "U+0309", "U+030A", "U+030B", "U+030C", "U+030D", "U+030E", "U+030F", "U+0310",
      "U+0311", "U+0312", "U+0313", "U+0314", "U+0315", "U+0316", "U+0317", "U+0318", "U+0319",
      "U+031A", "U+031B", "U+031C", "U+031D", "U+031E", "U+031F", "U+0320", "U+0321", "U+0322",
      "U+0323", "U+0324", "U+0325", "U+0326", "U+0327", "U+0328", "U+0329", "U+032A", "U+032B",
      "U+032C", "U+032D", "U+032E", "U+032F", "U+0330", "U+0331", "U+0332", "U+0333", "U+0334",
      "U+0335", "U+0336", "U+0337", "U+0338", "U+0339", "U+033A", "U+033B", "U+033C", "U+033D",
      "U+033E", "U+033F", "U+0340", "U+0341", "U+0342", "U+0343", "U+0344", "U+0345", "U+0346",
      "U+0347", "U+0348", "U+0349", "U+034A", "U+034B", "U+034C", "U+034D", "U+034E", "U+034F",
      "U+0350", "U+0351", "U+0352", "U+0353", "U+0354", "U+0355", "U+0356", "U+0357", "U+0358",
      "U+0359", "U+035A", "U+035B", "U+035C", "U+035D", "U+035E", "U+035F", "U+0360", "U+0361",
      "U+0362", "U+0363", "U+0364", "U+0365", "U+0366", "U+0367", "U+0368", "U+0369", "U+036A",
      "U+036B", "U+036C", "U+036D", "U+036E", "U+036F", "U+0374", "U+0375", "U+037A", "΄", "΅",
      "·", "҃", "҄", "҅", "҆", "҇", "҈", "҉", "U+0559", "U+055F", "֑", "֒", "֓", "֔", "֕", "֖",
      "֗", "֘", "֙", "֚", "֛", "֜", "֝", "֞", "֟", "֠", "֡", "֢", "֣", "֤", "֥", "֦", "֧", "֨",
      "֩", "֪", "֫", "֬", "֭", "֮", "֯", "ְ", "ֱ", "ֲ", "ֳ", "ִ", "ֵ", "ֶ", "ַ", "ָ", "ֹ", "ֺ",
      "ֻ", "ּ", "ֽ", "ֿ", "ׁ", "ׂ", "ׄ", "ׅ", "ׇ", "״", "U+0600", "U+0601", "U+0602", "U+0603",
      "U+0604", "U+0605", "U+0610", "U+0611", "U+0612", "U+0613", "U+0614", "U+0615", "U+0616",
      "U+0617", "U+0618", "U+0619", "U+061A", "U+061C", "U+0640", "U+064B", "U+064C", "U+064D",
      "U+064E", "U+064F", "U+0650", "U+0651", "U+0652", "U+0653", "U+0654", "U+0655", "U+0656",
      "U+0657", "U+0658", "U+0659", "U+065A", "U+065B", "U+065C", "U+065D", "U+065E", "U+065F",
      "U+0670", "ۖ", "ۗ", "ۘ", "ۙ", "ۚ", "ۛ", "ۜ", "۝", "۟", "۠", "ۡ", "ۢ", "ۣ", "ۤ", "ۥ", "ۦ",
      "ۧ", "ۨ", "۪", "۫", "۬", "ۭ", "U+070F", "U+0711", "U+0730", "U+0731", "U+0732", "U+0733",
      "U+0734", "U+0735", "U+0736", "U+0737", "U+0738", "U+0739", "U+073A", "U+073B", "U+073C",
      "U+073D", "U+073E", "U+073F", "U+0740", "U+0741", "U+0742", "U+0743", "U+0744", "U+0745",
      "U+0746", "U+0747", "U+0748", "U+0749", "U+074A", "ަ", "ާ", "ި", "ީ", "ު", "ޫ", "ެ", "ޭ",
      "ޮ", "ޯ", "ް", "߫", "߬", "߭", "߮", "߯", "߰", "߱", "߲", "߳", "ߴ", "ߵ", "ߺ", "߽", "U+0816",
      "U+0817", "U+0818", "U+0819", "U+081A", "U+081B", "U+081C", "U+081D", "U+081E", "U+081F",
      "U+0820", "U+0821", "U+0822", "U+0823", "U+0824", "U+0825", "U+0826", "U+0827", "U+0828",
      "U+0829", "U+082A", "U+082B", "U+082C", "U+082D", "U+0859", "U+085A", "U+085B", "࢈", "࢐",
      "࢑", "࢘", "࢙", "࢚", "࢛", "࢜", "࢝", "࢞", "࢟", "ࣉ", "࣊", "࣋", "࣌", "࣍", "࣎", "࣏", "࣐", "࣑",
      "࣒", "࣓", "ࣔ", "ࣕ", "ࣖ", "ࣗ", "ࣘ", "ࣙ", "ࣚ", "ࣛ", "ࣜ", "ࣝ", "ࣞ", "ࣟ", "࣠", "࣡", "࣢", "ࣣ",
      "ࣤ", "ࣥ", "ࣦ", "ࣧ", "ࣨ", "ࣩ", "࣪", "࣫", "࣬", "࣭", "࣮", "࣯", "ࣰ", "ࣱ", "ࣲ", "ࣳ", "ࣴ", "ࣵ",
      "ࣶ", "ࣷ", "ࣸ", "ࣹ", "ࣺ", "ࣻ", "ࣼ", "ࣽ", "ࣾ", "ࣿ", "U+0900", "U+0901", "U+0902", "U+093A",
      "U+093C", "U+0941", "U+0942", "U+0943", "U+0944", "U+0945", "U+0946", "U+0947", "U+0948",
      "U+094D", "U+0951", "U+0952", "U+0953", "U+0954", "U+0955", "U+0956", "U+0957", "U+0962",
      "U+0963", "U+0971", "ঁ", "়", "ু", "ূ", "ৃ", "ৄ", "্", "ৢ", "ৣ", "৾", "U+0A01", "U+0A02",
      "U+0A3C", "U+0A41", "U+0A42", "U+0A47", "U+0A48", "U+0A4B", "U+0A4C", "U+0A4D", "U+0A51",
      "U+0A70", "U+0A71", "U+0A75", "ઁ", "ં", "઼", "ુ", "ૂ", "ૃ", "ૄ", "ૅ", "ે", "ૈ", "્", "ૢ",
      "ૣ", "ૺ", "ૻ", "ૼ", "૽", "૾", "૿", "U+0B01", "U+0B3C", "U+0B3F", "U+0B41", "U+0B42",
      "U+0B43", "U+0B44", "U+0B4D", "U+0B55", "U+0B56", "U+0B62", "U+0B63", "ஂ", "ீ", "்",
      "U+0C00", "U+0C04", "U+0C3C", "U+0C3E", "U+0C3F", "U+0C40", "U+0C46", "U+0C47", "U+0C48",
      "U+0C4A", "U+0C4B", "U+0C4C", "U+0C4D", "U+0C55", "U+0C56", "U+0C62", "U+0C63", "ಁ", "಼",
      "ಿ", "ೆ", "ೌ", "್", "ೢ", "ೣ", "U+0D00", "U+0D01", "U+0D3B", "U+0D3C", "U+0D41", "U+0D42",
      "U+0D43", "U+0D44", "U+0D4D", "U+0D62", "U+0D63", "ඁ", "්", "ි", "ී", "ු", "ූ", "U+0E31",
      "U+0E34", "U+0E35", "U+0E36", "U+0E37", "U+0E38", "U+0E39", "U+0E3A", "U+0E46", "U+0E47",
      "U+0E48", "U+0E49", "U+0E4A", "U+0E4B", "U+0E4C", "U+0E4D", "U+0E4E", "ັ", "ິ", "ີ", "ຶ",
      "ື", "ຸ", "ູ", "຺", "ົ", "ຼ", "ໆ", "່", "້", "໊", "໋", "໌", "ໍ", "U+0F18", "U+0F19",
      "U+0F35", "U+0F37", "U+0F39", "U+0F71", "U+0F72", "U+0F73", "U+0F74", "U+0F75", "U+0F76",
      "U+0F77", "U+0F78", "U+0F79", "U+0F7A", "U+0F7B", "U+0F7C", "U+0F7D", "U+0F7E", "ྀ", "ཱྀ",
      "ྂ", "ྃ", "྄", "྆", "྇", "ྍ", "ྎ", "ྏ", "ྐ", "ྑ", "ྒ", "ྒྷ", "ྔ", "ྕ", "ྖ", "ྗ", "ྙ", "ྚ",
      "ྛ", "ྜ", "ྜྷ", "ྞ", "ྟ", "ྠ", "ྡ", "ྡྷ", "ྣ", "ྤ", "ྥ", "ྦ", "ྦྷ", "ྨ", "ྩ", "ྪ", "ྫ", "ྫྷ",
      "ྭ", "ྮ", "ྯ", "ྰ", "ྱ", "ྲ", "ླ", "ྴ", "ྵ", "ྶ", "ྷ", "ྸ", "ྐྵ", "ྺ", "ྻ", "ྼ", "࿆",
      "U+102D", "U+102E", "U+102F", "U+1030", "U+1032", "U+1033", "U+1034", "U+1035", "U+1036",
      "U+1037", "U+1039", "U+103A", "U+103D", "U+103E", "U+1058", "U+1059", "U+105E", "U+105F",
      "U+1060", "U+1071", "U+1072", "U+1073", "U+1074", "ႂ", "ႅ", "ႆ", "ႍ", "ႝ", "ჼ", "U+135D",
      "U+135E", "U+135F", "U+1712", "U+1713", "U+1714", "U+1732", "U+1733", "U+1752", "U+1753",
      "U+1772", "U+1773", "឴", "឵", "ិ", "ី", "ឹ", "ឺ", "ុ", "ូ", "ួ", "ំ", "៉", "៊", "់", "៌",
      "៍", "៎", "៏", "័", "៑", "្", "៓", "ៗ", "៝", "U+180B", "U+180C", "U+180D", "U+180E",
      "U+180F", "U+1843", "ᢅ", "ᢆ", "ᢩ", "U+1920", "U+1921", "U+1922", "U+1927", "U+1928",
      "U+1932", "U+1939", "U+193A", "U+193B", "U+1A17", "U+1A18", "U+1A1B", "U+1A56", "U+1A58",
      "U+1A59", "U+1A5A", "U+1A5B", "U+1A5C", "U+1A5D", "U+1A5E", "U+1A60", "U+1A62", "U+1A65",
      "U+1A66", "U+1A67", "U+1A68", "U+1A69", "U+1A6A", "U+1A6B", "U+1A6C", "U+1A73", "U+1A74",
      "U+1A75", "U+1A76", "U+1A77", "U+1A78", "U+1A79", "U+1A7A", "U+1A7B", "U+1A7C", "U+1A7F",
      "ᪧ", "᪰", "᪱", "᪲", "᪳", "᪴", "᪵", "᪶", "᪷", "᪸", "᪹", "᪺", "᪻", "᪼", "᪽", "᪾", "ᪿ", "ᫀ",
      "᫁", "᫂", "᫃", "᫄", "᫅", "᫆", "᫇", "᫈", "᫉", "᫊", "᫋", "ᫌ", "ᫍ", "ᫎ", "U+1B00", "U+1B01",
      "U+1B02", "U+1B03", "U+1B34", "U+1B36", "U+1B37", "U+1B38", "U+1B39", "U+1B3A", "U+1B3C",
      "U+1B42", "U+1B6B", "U+1B6C", "U+1B6D", "U+1B6E", "U+1B6F", "U+1B70", "U+1B71", "U+1B72",
      "U+1B73", "ᮀ", "ᮁ", "ᮢ", "ᮣ", "ᮤ", "ᮥ", "ᮨ", "ᮩ", "᮫", "ᮬ", "ᮭ", "᯦", "ᯨ", "ᯩ", "ᯭ", "ᯯ",
      "ᯰ", "ᯱ", "U+1C2C", "U+1C2D", "U+1C2E", "U+1C2F", "U+1C30", "U+1C31", "U+1C32", "U+1C33",
      "U+1C36", "U+1C37", "U+1C78", "U+1C79", "U+1C7A", "U+1C7B", "U+1C7C", "U+1C7D", "᳐", "᳑",
      "᳒", "᳔", "᳕", "᳖", "᳗", "᳘", "᳙", "᳚", "᳛", "᳜", "᳝", "᳞", "᳟", "᳠", "᳢", "᳣", "᳤", "᳥",
      "᳦", "᳧", "᳨", "᳭", "᳴", "᳸", "᳹", "U+1D2C", "U+1D2D", "U+1D2E", "U+1D2F", "U+1D30",
      "U+1D31", "U+1D32", "U+1D33", "U+1D34", "U+1D35", "U+1D36", "U+1D37", "U+1D38", "U+1D39",
      "U+1D3A", "U+1D3B", "U+1D3C", "U+1D3D", "U+1D3E", "U+1D3F", "U+1D40", "U+1D41", "U+1D42",
      "U+1D43", "U+1D44", "U+1D45", "U+1D46", "U+1D47", "U+1D48", "U+1D49", "U+1D4A", "U+1D4B",
      "U+1D4C", "U+1D4D", "U+1D4E", "U+1D4F", "U+1D50", "U+1D51", "U+1D52", "U+1D53", "U+1D54",
      "U+1D55", "U+1D56", "U+1D57", "U+1D58", "U+1D59", "U+1D5A", "U+1D5B", "U+1D5C", "U+1D5D",
      "U+1D5E", "U+1D5F", "U+1D60", "U+1D61", "U+1D62", "U+1D63", "U+1D64", "U+1D65", "U+1D66",
      "U+1D67", "U+1D68", "U+1D69", "U+1D6A", "U+1D78", "ᶛ", "ᶜ", "ᶝ", "ᶞ", "ᶟ", "ᶠ", "ᶡ", "ᶢ",
      "ᶣ", "ᶤ", "ᶥ", "ᶦ", "ᶧ", "ᶨ", "ᶩ", "ᶪ", "ᶫ", "ᶬ", "ᶭ", "ᶮ", "ᶯ", "ᶰ", "ᶱ", "ᶲ", "ᶳ", "ᶴ",
      "ᶵ", "ᶶ", "ᶷ", "ᶸ", "ᶹ", "ᶺ", "ᶻ", "ᶼ", "ᶽ", "ᶾ", "ᶿ", "᷀", "᷁", "᷂", "᷃", "᷄", "᷅", "᷆",
      "᷇", "᷈", "᷉", "᷊", "᷋", "᷌", "᷍", "᷎", "᷏", "᷐", "᷑", "᷒", "ᷓ", "ᷔ", "ᷕ", "ᷖ", "ᷗ", "ᷘ",
      "ᷙ", "ᷚ", "ᷛ", "ᷜ", "ᷝ", "ᷞ", "ᷟ", "ᷠ", "ᷡ", "ᷢ", "ᷣ", "ᷤ", "ᷥ", "ᷦ", "ᷧ", "ᷨ", "ᷩ", "ᷪ",
      "ᷫ", "ᷬ", "ᷭ", "ᷮ", "ᷯ", "ᷰ", "ᷱ", "ᷲ", "ᷳ", "ᷴ", "᷵", "᷶", "᷷", "᷸", "᷹", "᷺", "᷻", "᷼",
      "᷽", "᷾", "᷿", "᾽", "᾿", "῀", "῁", "῍", "῎", "῏", "῝", "῞", "῟", "῭", "΅", "`", "´", "῾",
      "U+200B", "U+200C", "U+200D", "U+200E", "U+200F", "U+2018", "U+2019", "U+2024", "U+2027",
      "U+202A", "U+202B", "U+202C", "U+202D", "U+202E", "U+2060", "U+2061", "U+2062", "U+2063",
      "U+2064", "U+2066", "U+2067", "U+2068", "U+2069", "U+206A", "U+206B", "U+206C", "U+206D",
      "U+206E", "U+206F", "U+2071", "U+207F", "ₐ", "ₑ", "ₒ", "ₓ", "ₔ", "ₕ", "ₖ", "ₗ", "ₘ", "ₙ",
      "ₚ", "ₛ", "ₜ", "⃐", "⃑", "⃒", "⃓", "⃔", "⃕", "⃖", "⃗", "⃘", "⃙", "⃚", "⃛", "⃜", "⃝", "⃞",
      "⃟", "⃠", "⃡", "⃢", "⃣", "⃤", "⃥", "⃦", "⃧", "⃨", "⃩", "⃪", "⃫", "⃬", "⃭", "⃮", "⃯", "⃰",
      "U+2C7C", "U+2C7D", "⳯", "⳰", "⳱", "U+2D6F", "U+2D7F", "ⷠ", "ⷡ", "ⷢ", "ⷣ", "ⷤ", "ⷥ", "ⷦ",
      "ⷧ", "ⷨ", "ⷩ", "ⷪ", "ⷫ", "ⷬ", "ⷭ", "ⷮ", "ⷯ", "ⷰ", "ⷱ", "ⷲ", "ⷳ", "ⷴ", "ⷵ", "ⷶ", "ⷷ", "ⷸ",
      "ⷹ", "ⷺ", "ⷻ", "ⷼ", "ⷽ", "ⷾ", "ⷿ", "U+2E2F", "U+3005", "U+302A", "U+302B", "U+302C",
      "U+302D", "U+3031", "U+3032", "U+3033", "U+3034", "U+3035", "U+303B", "゙", "゚", "゛", "゜",
      "ゝ", "ゞ", "ー", "ヽ", "ヾ", "U+A015", "ꓸ", "ꓹ", "ꓺ", "ꓻ", "ꓼ", "ꓽ", "U+A60C", "U+A66F",
      "U+A670", "U+A671", "U+A672", "U+A674", "U+A675", "U+A676", "U+A677", "U+A678", "U+A679",
      "U+A67A", "U+A67B", "U+A67C", "U+A67D", "U+A67F", "ꚜ", "ꚝ", "ꚞ", "ꚟ", "꛰", "꛱", "U+A700",
      "U+A701", "U+A702", "U+A703", "U+A704", "U+A705", "U+A706", "U+A707", "U+A708", "U+A709",
      "U+A70A", "U+A70B", "U+A70C", "U+A70D", "U+A70E", "U+A70F", "U+A710", "U+A711", "U+A712",
      "U+A713", "U+A714", "U+A715", "U+A716", "U+A717", "U+A718", "U+A719", "U+A71A", "U+A71B",
      "U+A71C", "U+A71D", "U+A71E", "U+A71F", "U+A720", "U+A721", "U+A770", "ꞈ", "꞉", "꞊", "ꟲ",
      "ꟳ", "ꟴ", "ꟸ", "ꟹ", "U+A802", "U+A806", "U+A80B", "U+A825", "U+A826", "U+A82C", "꣄", "ꣅ",
      "꣠", "꣡", "꣢", "꣣", "꣤", "꣥", "꣦", "꣧", "꣨", "꣩", "꣪", "꣫", "꣬", "꣭", "꣮", "꣯", "꣰", "꣱",
      "ꣿ", "U+A926", "U+A927", "U+A928", "U+A929", "U+A92A", "U+A92B", "U+A92C", "U+A92D",
      "U+A947", "U+A948", "U+A949", "U+A94A", "U+A94B", "U+A94C", "U+A94D", "U+A94E", "U+A94F",
      "U+A950", "U+A951", "ꦀ", "ꦁ", "ꦂ", "꦳", "ꦶ", "ꦷ", "ꦸ", "ꦹ", "ꦼ", "ꦽ", "ꧏ", "ꧥ", "ꧦ",
      "U+AA29", "U+AA2A", "U+AA2B", "U+AA2C", "U+AA2D", "U+AA2E", "U+AA31", "U+AA32", "U+AA35",
      "U+AA36", "U+AA43", "U+AA4C", "U+AA70", "U+AA7C", "ꪰ", "ꪲ", "ꪳ", "ꪴ", "ꪷ", "ꪸ", "ꪾ", "꪿",
      "꫁", "ꫝ", "ꫬ", "ꫭ", "ꫳ", "ꫴ", "꫶", "U+AB5B", "U+AB5C", "U+AB5D", "U+AB5E", "U+AB5F",
      "U+AB69", "U+AB6A", "U+AB6B", "ꯥ", "ꯨ", "꯭", "U+FB1E", "﮲", "﮳", "﮴", "﮵", "﮶", "﮷", "﮸",
      "﮹", "﮺", "﮻", "﮼", "﮽", "﮾", "﮿", "﯀", "﯁", "﯂", "U+FE00", "U+FE01", "U+FE02", "U+FE03",
      "U+FE04", "U+FE05", "U+FE06", "U+FE07", "U+FE08", "U+FE09", "U+FE0A", "U+FE0B", "U+FE0C",
      "U+FE0D", "U+FE0E", "U+FE0F", "U+FE13", "U+FE20", "U+FE21", "U+FE22", "U+FE23", "U+FE24",
      "U+FE25", "U+FE26", "U+FE27", "U+FE28", "U+FE29", "U+FE2A", "U+FE2B", "U+FE2C", "U+FE2D",
      "U+FE2E", "U+FE2F", "U+FE52", "U+FE55", "﻿", "U+FF07", "U+FF0E", "U+FF1A", "U+FF3E",
      "U+FF40", "U+FF70", "ﾞ", "ﾟ", "￣", "￹", "￺", "￻", "U+101FD", "U+102E0", "U+10376",
      "U+10377", "U+10378", "U+10379", "U+1037A", "U+10780", "U+10781", "U+10782", "U+10783",
      "U+10784", "U+10785", "U+10787", "U+10788", "U+10789", "U+1078A", "U+1078B", "U+1078C",
      "U+1078D", "U+1078E", "U+1078F", "U+10790", "U+10791", "U+10792", "U+10793", "U+10794",
      "U+10795", "U+10796", "U+10797", "U+10798", "U+10799", "U+1079A", "U+1079B", "U+1079C",
      "U+1079D", "U+1079E", "U+1079F", "U+107A0", "U+107A1", "U+107A2", "U+107A3", "U+107A4",
      "U+107A5", "U+107A6", "U+107A7", "U+107A8", "U+107A9", "U+107AA", "U+107AB", "U+107AC",
      "U+107AD", "U+107AE", "U+107AF", "U+107B0", "U+107B2", "U+107B3", "U+107B4", "U+107B5",
      "U+107B6", "U+107B7", "U+107B8", "U+107B9", "U+107BA", "U+10A01", "U+10A02", "U+10A03",
      "U+10A05", "U+10A06", "U+10A0C", "U+10A0D", "U+10A0E", "U+10A0F", "U+10A38", "U+10A39",
      "U+10A3A", "U+10A3F", "U+10AE5", "U+10AE6", "U+10D24", "U+10D25", "U+10D26", "U+10D27",
      "U+10EAB", "U+10EAC", "U+10F46", "U+10F47", "U+10F48", "U+10F49", "U+10F4A", "U+10F4B",
      "U+10F4C", "U+10F4D", "U+10F4E", "U+10F4F", "U+10F50", "U+10F82", "U+10F83", "U+10F84",
      "U+10F85", "U+11001", "U+11038", "U+11039", "U+1103A", "U+1103B", "U+1103C", "U+1103D",
      "U+1103E", "U+1103F", "U+11040", "U+11041", "U+11042", "U+11043", "U+11044", "U+11045",
      "U+11046", "U+11070", "U+11073", "U+11074", "U+1107F", "U+11080", "U+11081", "U+110B3",
      "U+110B4", "U+110B5", "U+110B6", "U+110B9", "U+110BA", "U+110BD", "U+110C2", "U+110CD",
      "U+11100", "U+11101", "U+11102", "U+11127", "U+11128", "U+11129", "U+1112A", "U+1112B",
      "U+1112D", "U+1112E", "U+1112F", "U+11130", "U+11131", "U+11132", "U+11133", "U+11134",
      "U+11173", "U+11180", "U+11181", "U+111B6", "U+111B7", "U+111B8", "U+111B9", "U+111BA",
      "U+111BB", "U+111BC", "U+111BD", "U+111BE", "U+111C9", "U+111CA", "U+111CB", "U+111CC",
      "U+111CF", "U+1122F", "U+11230", "U+11231", "U+11234", "U+11236", "U+11237", "U+1123E",
      "U+112DF", "U+112E3", "U+112E4", "U+112E5", "U+112E6", "U+112E7", "U+112E8", "U+112E9",
      "U+112EA", "U+11300", "U+11301", "U+1133B", "U+1133C", "U+11340", "U+11366", "U+11367",
      "U+11368", "U+11369", "U+1136A", "U+1136B", "U+1136C", "U+11370", "U+11371", "U+11372",
      "U+11373", "U+11374", "U+11438", "U+11439", "U+1143A", "U+1143B", "U+1143C", "U+1143D",
      "U+1143E", "U+1143F", "U+11442", "U+11443", "U+11444", "U+11446", "U+1145E", "U+114B3",
      "U+114B4", "U+114B5", "U+114B6", "U+114B7", "U+114B8", "U+114BA", "U+114BF", "U+114C0",
      "U+114C2", "U+114C3", "U+115B2", "U+115B3", "U+115B4", "U+115B5", "U+115BC", "U+115BD",
      "U+115BF", "U+115C0", "U+115DC", "U+115DD", "U+11633", "U+11634", "U+11635", "U+11636",
      "U+11637", "U+11638", "U+11639", "U+1163A", "U+1163D", "U+1163F", "U+11640", "U+116AB",
      "U+116AD", "U+116B0", "U+116B1", "U+116B2", "U+116B3", "U+116B4", "U+116B5", "U+116B7",
      "U+1171D", "U+1171E", "U+1171F", "U+11722", "U+11723", "U+11724", "U+11725", "U+11727",
      "U+11728", "U+11729", "U+1172A", "U+1172B", "U+1182F", "U+11830", "U+11831", "U+11832",
      "U+11833", "U+11834", "U+11835", "U+11836", "U+11837", "U+11839", "U+1183A", "U+1193B",
      "U+1193C", "U+1193E", "U+11943", "U+119D4", "U+119D5", "U+119D6", "U+119D7", "U+119DA",
      "U+119DB", "U+119E0", "U+11A01", "U+11A02", "U+11A03", "U+11A04", "U+11A05", "U+11A06",
      "U+11A07", "U+11A08", "U+11A09", "U+11A0A", "U+11A33", "U+11A34", "U+11A35", "U+11A36",
      "U+11A37", "U+11A38", "U+11A3B", "U+11A3C", "U+11A3D", "U+11A3E", "U+11A47", "U+11A51",
      "U+11A52", "U+11A53", "U+11A54", "U+11A55", "U+11A56", "U+11A59", "U+11A5A", "U+11A5B",
      "U+11A8A", "U+11A8B", "U+11A8C", "U+11A8D", "U+11A8E", "U+11A8F", "U+11A90", "U+11A91",
      "U+11A92", "U+11A93", "U+11A94", "U+11A95", "U+11A96", "U+11A98", "U+11A99", "U+11C30",
      "U+11C31", "U+11C32", "U+11C33", "U+11C34", "U+11C35", "U+11C36", "U+11C38", "U+11C39",
      "U+11C3A", "U+11C3B", "U+11C3C", "U+11C3D", "U+11C3F", "U+11C92", "U+11C93", "U+11C94",
      "U+11C95", "U+11C96", "U+11C97", "U+11C98", "U+11C99", "U+11C9A", "U+11C9B", "U+11C9C",
      "U+11C9D", "U+11C9E", "U+11C9F", "U+11CA0", "U+11CA1", "U+11CA2", "U+11CA3", "U+11CA4",
      "U+11CA5", "U+11CA6", "U+11CA7", "U+11CAA", "U+11CAB", "U+11CAC", "U+11CAD", "U+11CAE",
      "U+11CAF", "U+11CB0", "U+11CB2", "U+11CB3", "U+11CB5", "U+11CB6", "U+11D31", "U+11D32",
      "U+11D33", "U+11D34", "U+11D35", "U+11D36", "U+11D3A", "U+11D3C", "U+11D3D", "U+11D3F",
      "U+11D40", "U+11D41", "U+11D42", "U+11D43", "U+11D44", "U+11D45", "U+11D47", "U+11D90",
      "U+11D91", "U+11D95", "U+11D97", "U+11EF3", "U+11EF4", "U+13430", "U+13431", "U+13432",
      "U+13433", "U+13434", "U+13435", "U+13436", "U+13437", "U+13438", "U+16AF0", "U+16AF1",
      "U+16AF2", "U+16AF3", "U+16AF4", "U+16B30", "U+16B31", "U+16B32", "U+16B33", "U+16B34",
      "U+16B35", "U+16B36", "U+16B40", "U+16B41", "U+16B42", "U+16B43", "U+16F4F", "U+16F8F",
      "U+16F90", "U+16F91", "U+16F92", "U+16F93", "U+16F94", "U+16F95", "U+16F96", "U+16F97",
      "U+16F98", "U+16F99", "U+16F9A", "U+16F9B", "U+16F9C", "U+16F9D", "U+16F9E", "U+16F9F",
      "U+16FE0", "U+16FE1", "U+16FE3", "U+16FE4", "U+1AFF0", "U+1AFF1", "U+1AFF2", "U+1AFF3",
      "U+1AFF5", "U+1AFF6", "U+1AFF7", "U+1AFF8", "U+1AFF9", "U+1AFFA", "U+1AFFB", "U+1AFFD",
      "U+1AFFE", "U+1BC9D", "U+1BC9E", "U+1BCA0", "U+1BCA1", "U+1BCA2", "U+1BCA3", "U+1CF00",
      "U+1CF01", "U+1CF02", "U+1CF03", "U+1CF04", "U+1CF05", "U+1CF06", "U+1CF07", "U+1CF08",
      "U+1CF09", "U+1CF0A", "U+1CF0B", "U+1CF0C", "U+1CF0D", "U+1CF0E", "U+1CF0F", "U+1CF10",
      "U+1CF11", "U+1CF12", "U+1CF13", "U+1CF14", "U+1CF15", "U+1CF16", "U+1CF17", "U+1CF18",
      "U+1CF19", "U+1CF1A", "U+1CF1B", "U+1CF1C", "U+1CF1D", "U+1CF1E", "U+1CF1F", "U+1CF20",
      "U+1CF21", "U+1CF22", "U+1CF23", "U+1CF24", "U+1CF25", "U+1CF26", "U+1CF27", "U+1CF28",
      "U+1CF29", "U+1CF2A", "U+1CF2B", "U+1CF2C", "U+1CF2D", "U+1CF30", "U+1CF31", "U+1CF32",
      "U+1CF33", "U+1CF34", "U+1CF35", "U+1CF36", "U+1CF37", "U+1CF38", "U+1CF39", "U+1CF3A",
      "U+1CF3B", "U+1CF3C", "U+1CF3D", "U+1CF3E", "U+1CF3F", "U+1CF40", "U+1CF41", "U+1CF42",
      "U+1CF43", "U+1CF44", "U+1CF45", "U+1CF46", "U+1D167", "U+1D168", "U+1D169", "U+1D173",
      "U+1D174", "U+1D175", "U+1D176", "U+1D177", "U+1D178", "U+1D179", "U+1D17A", "U+1D17B",
      "U+1D17C", "U+1D17D", "U+1D17E", "U+1D17F", "U+1D180", "U+1D181", "U+1D182", "U+1D185",
      "U+1D186", "U+1D187", "U+1D188", "U+1D189", "U+1D18A", "U+1D18B", "U+1D1AA", "U+1D1AB",
      "U+1D1AC", "U+1D1AD", "U+1D242", "U+1D243", "U+1D244", "U+1DA00", "U+1DA01", "U+1DA02",
      "U+1DA03", "U+1DA04", "U+1DA05", "U+1DA06", "U+1DA07", "U+1DA08", "U+1DA09", "U+1DA0A",
      "U+1DA0B", "U+1DA0C", "U+1DA0D", "U+1DA0E", "U+1DA0F", "U+1DA10", "U+1DA11", "U+1DA12",
      "U+1DA13", "U+1DA14", "U+1DA15", "U+1DA16", "U+1DA17", "U+1DA18", "U+1DA19", "U+1DA1A",
      "U+1DA1B", "U+1DA1C", "U+1DA1D", "U+1DA1E", "U+1DA1F", "U+1DA20", "U+1DA21", "U+1DA22",
      "U+1DA23", "U+1DA24", "U+1DA25", "U+1DA26", "U+1DA27", "U+1DA28", "U+1DA29", "U+1DA2A",
      "U+1DA2B", "U+1DA2C", "U+1DA2D", "U+1DA2E", "U+1DA2F", "U+1DA30", "U+1DA31", "U+1DA32",
      "U+1DA33", "U+1DA34", "U+1DA35", "U+1DA36", "U+1DA3B", "U+1DA3C", "U+1DA3D", "U+1DA3E",
      "U+1DA3F", "U+1DA40", "U+1DA41", "U+1DA42", "U+1DA43", "U+1DA44", "U+1DA45", "U+1DA46",
      "U+1DA47", "U+1DA48", "U+1DA49", "U+1DA4A", "U+1DA4B", "U+1DA4C", "U+1DA4D", "U+1DA4E",
      "U+1DA4F", "U+1DA50", "U+1DA51", "U+1DA52", "U+1DA53", "U+1DA54", "U+1DA55", "U+1DA56",
      "U+1DA57", "U+1DA58", "U+1DA59", "U+1DA5A", "U+1DA5B", "U+1DA5C", "U+1DA5D", "U+1DA5E",
      "U+1DA5F", "U+1DA60", "U+1DA61", "U+1DA62", "U+1DA63", "U+1DA64", "U+1DA65", "U+1DA66",
      "U+1DA67", "U+1DA68", "U+1DA69", "U+1DA6A", "U+1DA6B", "U+1DA6C", "U+1DA75", "U+1DA84",
      "U+1DA9B", "U+1DA9C", "U+1DA9D", "U+1DA9E", "U+1DA9F", "U+1DAA1", "U+1DAA2", "U+1DAA3",
      "U+1DAA4", "U+1DAA5", "U+1DAA6", "U+1DAA7", "U+1DAA8", "U+1DAA9", "U+1DAAA", "U+1DAAB",
      "U+1DAAC", "U+1DAAD", "U+1DAAE", "U+1DAAF", "U+1E000", "U+1E001", "U+1E002", "U+1E003",
      "U+1E004", "U+1E005", "U+1E006", "U+1E008", "U+1E009", "U+1E00A", "U+1E00B", "U+1E00C",
      "U+1E00D", "U+1E00E", "U+1E00F", "U+1E010", "U+1E011", "U+1E012", "U+1E013", "U+1E014",
      "U+1E015", "U+1E016", "U+1E017", "U+1E018", "U+1E01B", "U+1E01C", "U+1E01D", "U+1E01E",
      "U+1E01F", "U+1E020", "U+1E021", "U+1E023", "U+1E024", "U+1E026", "U+1E027", "U+1E028",
      "U+1E029", "U+1E02A", "U+1E130", "U+1E131", "U+1E132", "U+1E133", "U+1E134", "U+1E135",
      "U+1E136", "U+1E137", "U+1E138", "U+1E139", "U+1E13A", "U+1E13B", "U+1E13C", "U+1E13D",
      "U+1E2AE", "U+1E2EC", "U+1E2ED", "U+1E2EE", "U+1E2EF", "U+1E8D0", "U+1E8D1", "U+1E8D2",
      "U+1E8D3", "U+1E8D4", "U+1E8D5", "U+1E8D6", "U+1E944", "U+1E945", "U+1E946", "U+1E947",
      "U+1E948", "U+1E949", "U+1E94A", "U+1E94B", "U+1F3FB", "U+1F3FC", "U+1F3FD", "U+1F3FE",
      "U+1F3FF", "U+E0001", "U+E0020", "U+E0021", "U+E0022", "U+E0023", "U+E0024", "U+E0025",
      "U+E0026", "U+E0027", "U+E0028", "U+E0029", "U+E002A", "U+E002B", "U+E002C", "U+E002D",
      "U+E002E", "U+E002F", "U+E0030", "U+E0031", "U+E0032", "U+E0033", "U+E0034", "U+E0035",
      "U+E0036", "U+E0037", "U+E0038", "U+E0039", "U+E003A", "U+E003B", "U+E003C", "U+E003D",
      "U+E003E", "U+E003F", "U+E0040", "U+E0041", "U+E0042", "U+E0043", "U+E0044", "U+E0045",
      "U+E0046", "U+E0047", "U+E0048", "U+E0049", "U+E004A", "U+E004B", "U+E004C", "U+E004D",
      "U+E004E", "U+E004F", "U+E0050", "U+E0051", "U+E0052", "U+E0053", "U+E0054", "U+E0055",
      "U+E0056", "U+E0057", "U+E0058", "U+E0059", "U+E005A", "U+E005B", "U+E005C", "U+E005D",
      "U+E005E", "U+E005F", "U+E0060", "U+E0061", "U+E0062", "U+E0063", "U+E0064", "U+E0065",
      "U+E0066", "U+E0067", "U+E0068", "U+E0069", "U+E006A", "U+E006B", "U+E006C", "U+E006D",
      "U+E006E", "U+E006F", "U+E0070", "U+E0071", "U+E0072", "U+E0073", "U+E0074", "U+E0075",
      "U+E0076", "U+E0077", "U+E0078", "U+E0079", "U+E007A", "U+E007B", "U+E007C", "U+E007D",
      "U+E007E", "U+E007F", "U+E0100", "U+E0101", "U+E0102", "U+E0103", "U+E0104", "U+E0105",
      "U+E0106", "U+E0107", "U+E0108", "U+E0109", "U+E010A", "U+E010B", "U+E010C", "U+E010D",
      "U+E010E", "U+E010F", "U+E0110", "U+E0111", "U+E0112", "U+E0113", "U+E0114", "U+E0115",
      "U+E0116", "U+E0117", "U+E0118", "U+E0119", "U+E011A", "U+E011B", "U+E011C", "U+E011D",
      "U+E011E", "U+E011F", "U+E0120", "U+E0121", "U+E0122", "U+E0123", "U+E0124", "U+E0125",
      "U+E0126", "U+E0127", "U+E0128", "U+E0129", "U+E012A", "U+E012B", "U+E012C", "U+E012D",
      "U+E012E", "U+E012F", "U+E0130", "U+E0131", "U+E0132", "U+E0133", "U+E0134", "U+E0135",
      "U+E0136", "U+E0137", "U+E0138", "U+E0139", "U+E013A", "U+E013B", "U+E013C", "U+E013D",
      "U+E013E", "U+E013F", "U+E0140", "U+E0141", "U+E0142", "U+E0143", "U+E0144", "U+E0145",
      "U+E0146", "U+E0147", "U+E0148", "U+E0149", "U+E014A", "U+E014B", "U+E014C", "U+E014D",
      "U+E014E", "U+E014F", "U+E0150", "U+E0151", "U+E0152", "U+E0153", "U+E0154", "U+E0155",
      "U+E0156", "U+E0157", "U+E0158", "U+E0159", "U+E015A", "U+E015B", "U+E015C", "U+E015D",
      "U+E015E", "U+E015F", "U+E0160", "U+E0161", "U+E0162", "U+E0163", "U+E0164", "U+E0165",
      "U+E0166", "U+E0167", "U+E0168", "U+E0169", "U+E016A", "U+E016B", "U+E016C", "U+E016D",
      "U+E016E", "U+E016F", "U+E0170", "U+E0171", "U+E0172", "U+E0173", "U+E0174", "U+E0175",
      "U+E0176", "U+E0177", "U+E0178", "U+E0179", "U+E017A", "U+E017B", "U+E017C", "U+E017D",
      "U+E017E", "U+E017F", "U+E0180", "U+E0181", "U+E0182", "U+E0183", "U+E0184", "U+E0185",
      "U+E0186", "U+E0187", "U+E0188", "U+E0189", "U+E018A", "U+E018B", "U+E018C", "U+E018D",
      "U+E018E", "U+E018F", "U+E0190", "U+E0191", "U+E0192", "U+E0193", "U+E0194", "U+E0195",
      "U+E0196", "U+E0197", "U+E0198", "U+E0199", "U+E019A", "U+E019B", "U+E019C", "U+E019D",
      "U+E019E", "U+E019F", "U+E01A0", "U+E01A1", "U+E01A2", "U+E01A3", "U+E01A4", "U+E01A5",
      "U+E01A6", "U+E01A7", "U+E01A8", "U+E01A9", "U+E01AA", "U+E01AB", "U+E01AC", "U+E01AD",
      "U+E01AE", "U+E01AF", "U+E01B0", "U+E01B1", "U+E01B2", "U+E01B3", "U+E01B4", "U+E01B5",
      "U+E01B6", "U+E01B7", "U+E01B8", "U+E01B9", "U+E01BA", "U+E01BB", "U+E01BC", "U+E01BD",
      "U+E01BE", "U+E01BF", "U+E01C0", "U+E01C1", "U+E01C2", "U+E01C3", "U+E01C4", "U+E01C5",
      "U+E01C6", "U+E01C7", "U+E01C8", "U+E01C9", "U+E01CA", "U+E01CB", "U+E01CC", "U+E01CD",
      "U+E01CE", "U+E01CF", "U+E01D0", "U+E01D1", "U+E01D2", "U+E01D3", "U+E01D4", "U+E01D5",
      "U+E01D6", "U+E01D7", "U+E01D8", "U+E01D9", "U+E01DA", "U+E01DB", "U+E01DC", "U+E01DD",
      "U+E01DE", "U+E01DF", "U+E01E0", "U+E01E1", "U+E01E2", "U+E01E3", "U+E01E4", "U+E01E5",
      "U+E01E6", "U+E01E7", "U+E01E8", "U+E01E9", "U+E01EA", "U+E01EB", "U+E01EC", "U+E01ED",
      "U+E01EE", "U+E01EF"
    }

AsciiDigits == {"0", "1", "2", "3", "4", "5", "6", "7", "8", "9"}

DigitChars == <<"0", "1", "2", "3", "4", "5", "6", "7", "8", "9">>

\* the value of a decimal digit
DigitVal(c) == (CHOOSE v \in 1..10 : c \in DecimalDigits[v]) - 1

\* str.isdigit(): non-empty and every character a digit
isdigit(s) == Len(s) > 0 /\ \A i \in 1..Len(s) : s[i] \in Digits

\* s without its leading characters of the set W
RECURSIVE LStrip(_, _)
LStrip(s, W) == IF Len(s) > 0 /\ s[1] \in W THEN LStrip(Tail(s), W) ELSE s

\* s without its trailing characters of the set W
RECURSIVE RStrip(_, _)
RStrip(s, W) ==
    IF Len(s) > 0 /\ s[Len(s)] \in W THEN RStrip(SubSeq(s, 1, Len(s) - 1), W) ELSE s

lstrip(s) == LStrip(s, Whitespace)

rstrip(s) == RStrip(s, Whitespace)

\* str.strip()
strip(s) == rstrip(lstrip(s))

\* the literals int() accepts: surrounding whitespace, an optional sign, then
\* decimal digits, with single underscores allowed between digits
IntAccepts(s) ==
    LET digits(b) ==
            /\ Len(b) > 0
            /\ \A i \in 1..Len(b) : b[i] \in Decimal \/ b[i] = "_"
            /\ b[1] # "_" /\ b[Len(b)] # "_"
            /\ \A i \in 1..(Len(b) - 1) : ~(b[i] = "_" /\ b[i + 1] = "_")
        signed(t) == digits(IF Len(t) > 0 /\ t[1] \in {"+", "-"} THEN Tail(t) ELSE t)
    IN  signed(RStrip(LStrip(s, IntWhitespace), IntWhitespace))

RECURSIVE DecimalValue(_)
DecimalValue(b) ==
    IF Len(b) = 0 THEN 0
    ELSE IF b[Len(b)] = "_" THEN DecimalValue(SubSeq(b, 1, Len(b) - 1))
    ELSE 10 * DecimalValue(SubSeq(b, 1, Len(b) - 1)) + DigitVal(b[Len(b)])

\* int(s) for a literal int() accepts
int(s) ==
    LET magnitude(neg, b) == IF neg THEN 0 - DecimalValue(b) ELSE DecimalValue(b)
        signed(t) == magnitude(Len(t) > 0 /\ t[1] = "-",
                               IF Len(t) > 0 /\ t[1] \in {"+", "-"} THEN Tail(t) ELSE t)
    IN  signed(RStrip(LStrip(s, IntWhitespace), IntWhitespace))

\* str(n) of an int
RECURSIVE NatToText(_)
NatToText(n) ==
    IF n < 10 THEN <<DigitChars[n + 1]>>
    ELSE NatToText(n \div 10) \o <<DigitChars[(n % 10) + 1]>>

IntToText(n) == IF n < 0 THEN <<"-">> \o NatToText(0 - n) ELSE NatToText(n)

\* str.split(sep) for a one-character separator: always at least one part
RECURSIVE split(_, _)
split(s, sep) ==
    IF \A i \in 1..Len(s) : s[i] # sep THEN <<s>>
    ELSE LET k == CHOOSE i \in 1..Len(s) :
                      s[i] = sep /\ \A j \in 1..(i - 1) : s[j] # sep
         IN  <<SubSeq(s, 1, k - 1)>> \o split(SubSeq(s, k + 1, Len(s)), sep)

\* the elements of a sequence
Range(f) == {f[i] : i \in DOMAIN f}

UpperSet == Range(Upper)

\* the position of the last character before position j, and of the first one
\* from position j on, that is not case-ignorable (0 and Len(s) + 1 if none)
RECURSIVE PrevNotIgnorable(_, _)
PrevNotIgnorable(s, j) ==
    IF j = 0 \/ s[j] \notin CaseIgnorable THEN j ELSE PrevNotIgnorable(s, j - 1)

RECURSIVE NextNotIgnorable(_, _)
NextNotIgnorable(s, j) ==
    IF j > Len(s) \/ s[j] \notin CaseIgnorable THEN j ELSE NextNotIgnorable(s, j + 1)

\* a capital sigma at position i ends a word: a cased character before it and
\* none after it, case-ignorable characters skipped
final_sigma(s, i) ==
    LET between(p, n) == /\ p >= 1 /\ s[p] \in Cased
                         /\ n > Len(s) \/ s[n] \notin Cased
    IN  between(PrevNotIgnorable(s, i - 1), NextNotIgnorable(s, i + 1))

\* the lower-case mapping of the character at position i of s
lower_char(s, i) ==
    IF s[i] = "Σ" THEN (IF final_sigma(s, i) THEN <<"ς">> ELSE <<"σ">>)
    ELSE IF s[i] = "U+0130" THEN <<"i", "U+0307">>
    ELSE IF s[i] \in UpperSet
    THEN <<Lower[CHOOSE k \in 1..Len(Upper) : Upper[k] = s[i]]>>
    ELSE <<s[i]>>

RECURSIVE LowerFrom(_, _)
LowerFrom(s, i) == IF i > Len(s) THEN <<>> ELSE lower_char(s, i) \o LowerFrom(s, i + 1)

\* str.lower()
lower(s) == LowerFrom(s, 1)

nan == <<"n", "a", "n">>

inf == <<"i", "n", "f">>

SetMax(S) == CHOOSE x \in S : \A y \in S : y <= x

SetMin(S) == CHOOSE x \in S : \A y \in S : x <= y

\* c * n
Repeat(c, n) == [i \in 1..n |-> c]

\* row.get(col, ""): the cell, or the empty text when the column is absent
RowGet(row, col) == IF col \in DOMAIN row THEN row[col] ELSE <<>>

\* id_map[k] = v on a dict
DictSet(d, k, v) == [x \in (DOMAIN d) \cup {k} |-> IF x = k THEN v ELSE d[x]]

EmptyDict == [x \in {} |-> <<>>]

(* ------------------------------------------------------------------------ *)
(* pl.read_csv (load_mappings): the dtype of a column is inferred from its  *)
(* fields, and a cell reaches Python as a value of that dtype.  The fields  *)
(* are unquoted; an empty field is null, which Python sees as None.         *)
(* ------------------------------------------------------------------------ *)
\* f without one leading sign of the given set
Unsigned(f, signs) == IF Len(f) > 0 /\ f[1] \in signs THEN Tail(f) ELSE f

\* \d+ : decimal digits of any script
AllDecimal(s) == Len(s) > 0 /\ \A i \in 1..Len(s) : s[i] \in Decimal

\* s matches a word given as one set of characters per position
MatchesWord(s, word) == Len(s) = Len(word) /\ \A i \in 1..Len(s) : s[i] \in word[i]

\* the two words of the Boolean pattern; matching ignores case, and under
\* Unicode case folding the long s (U+017F) is an s
TrueWord == << {"t", "T"}, {"r", "R"}, {"u", "U"}, {"e", "E"} >>

FalseWord == << {"f", "F"}, {"a", "A"}, {"l", "L"}, {"s", "S", "U+017F"}, {"e", "E"} >>

IsTrueField(f) == MatchesWord(f, TrueWord)

\* ^(true|false)$, case-insensitive
IsBooleanField(f) == MatchesWord(f, TrueWord) \/ MatchesWord(f, FalseWord)

\* \d*\.\d+
IsFraction(m) ==
    \E k \in 1..Len(m) :
        /\ m[k] = "."
        /\ \A i \in 1..(k - 1) : m[i] \in Decimal
        /\ AllDecimal(SubSeq(m, k + 1, Len(m)))

\* [-+]?\d+
IsExponent(x) == AllDecimal(Unsigned(x, {"-", "+"}))

\* ^[-+]?((\d*\.\d+)([eE][-+]?\d+)?|inf|NaN|(\d+)[eE][-+]?\d+|\d+\.)$
IsFloatField(f) ==
    LET b == Unsigned(f, {"-", "+"})
    IN  \/ b = inf \/ b = <<"N", "a", "N">>
        \/ IsFraction(b)
        \/ Len(b) >= 2 /\ b[Len(b)] = "." /\ AllDecimal(SubSeq(b, 1, Len(b) - 1))
        \/ \E k \in 1..Len(b) :
              /\ b[k] \in {"e", "E"}
              /\ IsFraction(SubSeq(b, 1, k - 1)) \/ AllDecimal(SubSeq(b, 1, k - 1))
              /\ IsExponent(SubSeq(b, k + 1, Len(b)))

\* ^-?(\d+)$
IsIntegerField(f) == AllDecimal(Unsigned(f, {"-"}))

\* the dtype one field suggests: the patterns are tried in this order
infer_field(f) ==
    IF IsBooleanField(f) THEN "Boolean"
    ELSE IF IsFloatField(f) THEN "Float64"
    ELSE IF IsIntegerField(f) THEN "Int64"
    ELSE "String"

\* the dtype of column col: the one its non-empty fields agree on, Float64 for
\* integers with floats, String for any other mix and for a column without a
\* non-empty field
dtype(table, col) ==
    LET kinds == { infer_field(table[i][col]) :
                     i \in {j \in DOMAIN table :
                              col \in DOMAIN table[j] /\ table[j][col] # <<>>} }
    IN  IF Cardinality(kinds) = 1 THEN CHOOSE k \in kinds : TRUE
        ELSE IF kinds = {"Int64", "Float64"} THEN "Float64"
        ELSE "String"

(* ------------------------------------------------------------------------ *)
(* float(field) and repr(float): IEEE 754 binary64, computed exactly.  A    *)
(* natural number of any size is a sequence of limbs of eight decimal       *)
(* digits, least significant first, without a zero limb at the top; zero is *)
(* the empty sequence.                                                      *)
(* ------------------------------------------------------------------------ *)
Limb == 10000 * 10000

Pow10 == <<1, 10, 100, 1000, 10000, 100000, 1000000, 10000000>>

\* a without its zero limbs at the top
Trim(a) ==
    LET top(n) == IF n = 0 \/ a[n] # 0 THEN n
                  ELSE IF \A i \in 1..n : a[i] = 0 THEN 0
                  ELSE CHOOSE i \in 1..n : a[i] # 0 /\ \A j \in (i + 1)..n : a[j] = 0
    IN  SubSeq(a, 1, top(Len(a)))

\* the natural number with the decimal digits D, most significant first
Natural(D) ==
    LET n == Len(D)
        dv(p) == IF p >= 1 THEN D[p] ELSE 0
        limb(q) == dv(q) + 10 * dv(q - 1) + 100 * dv(q - 2) + 1000 * dv(q - 3)
                   + 10000 * dv(q - 4) + 100000 * dv(q - 5) + 1000000 * dv(q - 6)
                   + 10000000 * dv(q - 7)
    IN  Trim([i \in 1..((n + 7) \div 8) |-> limb(n - 8 * (i - 1))])

\* the decimal digits of a, most significant first; none for zero
NatDigits(a) ==
    LET n == 8 * Len(a)
        digit(p) == (a[(p \div 8) + 1] \div Pow10[(p % 8) + 1]) % 10
        from(k) == [i \in 1..(n - k + 1) |-> digit(n - k + 1 - i)]
    IN  IF n = 0 THEN <<>>
        ELSE from(CHOOSE k \in 1..8 : digit(n - k) # 0 /\ \A j \in 1..(k - 1) : digit(n - j) = 0)

\* 2a: the carry out of a limb does not depend on the carry into it
Dbl(a) ==
    LET n == Len(a)
        up(i) == IF i > 1 /\ a[i - 1] >= Limb \div 2 THEN 1 ELSE 0
    IN  Trim([i \in 1..(n + 1) |->
                 (IF i <= n THEN (2 * a[i]) % Limb ELSE 0) + up(i)])

\* a \div 2
Half(a) ==
    Trim([i \in 1..Len(a) |->
             a[i] \div 2 + (IF i < Len(a) /\ a[i + 1] % 2 = 1 THEN Limb \div 2 ELSE 0)])

\* 10a
Times10(a) ==
    Trim([i \in 1..(Len(a) + 1) |->
             (IF i <= Len(a) THEN (a[i] % 10000000) * 10 ELSE 0)
             + (IF i > 1 THEN a[i - 1] \div 10000000 ELSE 0)])

\* a * 2^k, a * 10^k and a \div 2^k: k steps, taken as two halves
RECURSIVE Times(_, _, _)
\* the second half of the steps; zero stays zero
TimesRest(b, op, k) == IF b = <<>> THEN <<>> ELSE Times(b, op, k)

Times(a, op, k) ==
    IF k = 0 THEN a
    ELSE IF k = 1
    THEN CASE op = "2" -> Dbl(a) [] op = "10" -> Times10(a) [] op = "1/2" -> Half(a)
    ELSE TimesRest(Times(a, op, k \div 2), op, k - k \div 2)

\* a * 10^k
ShiftDec(a, k) ==
    IF a = <<>> THEN <<>> ELSE [i \in 1..(k \div 8) |-> 0] \o Times(a, "10", k % 8)

\* the sign of a - b
Cmp(a, b) ==
    LET at(i) == IF a[i] > b[i] THEN 1 ELSE 0 - 1
    IN  IF Len(a) # Len(b) THEN (IF Len(a) > Len(b) THEN 1 ELSE 0 - 1)
        ELSE IF a = b THEN 0
        ELSE IF a[Len(a)] # b[Len(a)] THEN at(Len(a))
        ELSE at(CHOOSE i \in 1..Len(a) :
                   a[i] # b[i] /\ \A j \in (i + 1)..Len(a) : a[j] = b[j])

\* a - b for a >= b: a limb borrows when, below it, the first limbs that
\* differ have the smaller one in a
Sub(a, b) ==
    LET d(i) == a[i] - (IF i <= Len(b) THEN b[i] ELSE 0)
        borrow(i) ==
            /\ i > 1
            /\ IF d(i - 1) # 0 THEN d(i - 1) < 0
               ELSE \E k \in 2..(i - 1) :
                       d(i - k) < 0 /\ \A l \in (i - k + 1)..(i - 1) : d(l) = 0
    IN  Trim([i \in 1..Len(a) |->
                 (d(i) - (IF borrow(i) THEN 1 ELSE 0) + Limb) % Limb])

\* a + 1 for a below 10^16
Inc(a) ==
    IF a = <<>> THEN <<1>>
    ELSE IF a[1] < Limb - 1 THEN [a EXCEPT ![1] = @ + 1]
    ELSE IF Len(a) = 1 THEN <<0, 1>>
    ELSE [a EXCEPT ![1] = 0, ![2] = @ + 1]

\* 2^52, 2^53 and 2^63 as limbs
Two52 == <<27370496, 45035996>>

Two53 == <<54740992, 90071992>>

Two63 == <<54775808, 33720368, 922>>

\* the integer with sign neg and magnitude a is an Int64: -2^63 <= n < 2^63
InInt64(neg, a) == IF neg THEN Cmp(a, Two63) <= 0 ELSE Cmp(a, Two63) < 0

\* a double is zero, infinite or m * 2^s with m < 2^53, and m >= 2^52 unless
\* s = -1074 (the subnormal doubles)
ZeroDouble == [kind |-> "zero", m |-> <<>>, s |-> 0]

InfDouble == [kind |-> "inf", m |-> <<>>, s |-> 0]

NanDouble == [kind |-> "nan", m |-> <<>>, s |-> 0]

\* e = floor(log2(A / B)) for A / B = v / 2^e0 >= 1: B is doubled while it
\* stays below A
RECURSIVE FloorLog2(_, _, _)
FloorLog2Next(A, B, B2, e) ==
    IF Cmp(A, B2) >= 0 THEN FloorLog2(A, B2, e + 1) ELSE [A |-> A, B |-> B, e |-> e]

FloorLog2(A, B, e) == FloorLog2Next(A, B, Dbl(B), e)

\* t more bits of the quotient q.m of the division by B, q.R being the
\* remainder: one bit is the long division step, t bits are two halves, and
\* the bits after a remainder of zero are zeros
RECURSIVE QuotientBits(_, _, _)
\* the next bit is one when the shifted remainder R2 holds B
QuotientBit(q, R2, B, one) ==
    [m |-> IF one THEN Inc(Dbl(q.m)) ELSE Dbl(q.m),
     R |-> IF one THEN Sub(R2, B) ELSE R2]

QuotientShift(q, R2, B) == QuotientBit(q, R2, B, Cmp(R2, B) >= 0)

QuotientRest(h, B, t) ==
    IF h.R = <<>> THEN [m |-> Times(h.m, "2", t), R |-> <<>>]
    ELSE QuotientBits(h, B, t)

QuotientBits(q, B, t) ==
    IF t = 0 THEN q
    ELSE IF t = 1 THEN QuotientShift(q, Dbl(q.R), B)
    ELSE QuotientRest(QuotientBits(q, B, t \div 2), B, t - t \div 2)

\* the double m * 2^s after rounding: m = 2^53 is 2^52 with the next exponent,
\* and an exponent past the largest one is infinity
StrtodResult(m, s) ==
    IF m = <<>> THEN ZeroDouble
    ELSE IF m = Two53
    THEN (IF s + 1 > 971 THEN InfDouble
          ELSE [kind |-> "finite", m |-> Two52, s |-> s + 1])
    ELSE IF s > 971 THEN InfDouble
    ELSE [kind |-> "finite", m |-> m, s |-> s]

\* the quotient q.m is rounded by its remainder q.R: c is the sign of 2R - B,
\* and a tie goes to the even m
StrtodRounded(q, c, s) ==
    StrtodResult(IF c > 0 \/ (c = 0 /\ q.m # <<>> /\ q.m[1] % 2 = 1)
                 THEN Inc(q.m) ELSE q.m, s)

StrtodQuotient(q, B, s) == StrtodRounded(q, Cmp(Dbl(q.R), B), s)

\* A / B in [1, 2) to t bits after the first one
StrtodFirst(A, B, one, t, s) ==
    StrtodQuotient(QuotientBits([m |-> IF one THEN <<1>> ELSE <<>>,
                                 R |-> IF one THEN Sub(A, B) ELSE A], B, t), B, s)

StrtodDivide(A, B, t, s) == StrtodFirst(A, B, Cmp(A, B) >= 0, t, s)

\* p.A / p.B = v / 2^p.e is in [1, 2): m has t bits after the first one
StrtodBits(p, t) ==
    StrtodDivide(p.A, IF t < 0 THEN Times(p.B, "2", 0 - t) ELSE p.B,
                 IF t < 0 THEN 0 ELSE t, p.e - t)

\* 52 bits after the first one unless the double is subnormal
StrtodFound(p) == StrtodBits(p, IF p.e + 1074 < 52 THEN p.e + 1074 ELSE 52)

\* v = N / M, and e0 <= log2(v)
StrtodStart(N, M, e0) ==
    StrtodFound(FloorLog2(Times(N, "2", IF e0 < 0 THEN 0 - e0 ELSE 0),
                          Times(M, "2", IF e0 > 0 THEN e0 ELSE 0), e0))

\* v = n * 10^x
StrtodScaled(n, x, e0) ==
    StrtodStart(IF x >= 0 THEN ShiftDec(n, x) ELSE n,
                IF x >= 0 THEN <<1>> ELSE ShiftDec(<<1>>, 0 - x), e0)

\* strtod: the double nearest to v = 0.d1...dn * 10^decpt, D being the digits
\* d1 ... dn with d1 # 0; a tie goes to the even m
strtod(D, decpt) ==
    IF Len(D) = 0 \/ decpt < -323 THEN ZeroDouble
    ELSE IF decpt > 309 THEN InfDouble
    ELSE StrtodScaled(Natural(D), decpt - Len(D),
                      ((decpt - 1) * 3321928) \div 1000000 - 1)

\* digits without the zeros at their end
StripZeros(D) ==
    IF \A i \in 1..Len(D) : D[i] = 0 THEN <<>>
    ELSE SubSeq(D, 1, CHOOSE i \in 1..Len(D) :
                         D[i] # 0 /\ \A j \in (i + 1)..Len(D) : D[j] = 0)

\* the exact decimal expansion 0.d1...dn * 10^decpt of a finite double:
\* m * 2^s for s >= 0, and m * 5^-s * 10^s for s < 0
Expansion(d) ==
    LET of(E, x) == [digits |-> StripZeros(E), decpt |-> Len(E) + x]
    IN  IF d.s >= 0 THEN of(NatDigits(Times(d.m, "2", d.s)), 0)
        ELSE of(NatDigits(Times(ShiftDec(d.m, 0 - d.s), "1/2", 0 - d.s)), d.s)

\* the n digits D plus one in their last place
NextUp(D, decpt) ==
    LET n == Len(D)
        up(k) == IF k = n THEN [digits |-> <<1>>, decpt |-> decpt + 1]
                 ELSE [digits |-> [i \in 1..n |-> IF i < n - k THEN D[i]
                                                  ELSE IF i = n - k THEN D[i] + 1
                                                  ELSE 0],
                       decpt |-> decpt]
    IN  up(CHOOSE k \in 0..n : /\ \A i \in (n - k + 1)..n : D[i] = 9
                               /\ k = n \/ D[n - k] # 9)

\* the shortest digits that strtod reads back as the double d, E and decpt being
\* the expansion of d and n the number of digits tried: the first n digits of E
\* or the next number of n digits; if both read back as d, the nearer one, and
\* the one with the even last digit if d is half-way between them
RECURSIVE Shortest(_, _, _, _)
\* the first n digits are the nearer ones, or the even ones of a tie
ShortestBelow(E, n) ==
    \/ E[n + 1] < 5
    \/ E[n + 1] = 5 /\ n + 1 = Len(E) /\ E[n] % 2 = 0

ShortestPick(E, decpt, d, n, lo, hi, oklo, okhi) ==
    IF oklo /\ (~okhi \/ ShortestBelow(E, n))
    THEN [digits |-> StripZeros(lo), decpt |-> decpt]
    ELSE IF okhi THEN [digits |-> StripZeros(hi.digits), decpt |-> hi.decpt]
    ELSE Shortest(E, decpt, d, n + 1)

ShortestTry(E, decpt, d, n, lo, hi) ==
    ShortestPick(E, decpt, d, n, lo, hi,
                 strtod(lo, decpt) = d, strtod(hi.digits, hi.decpt) = d)

ShortestFrom(E, decpt, d, n, lo) == ShortestTry(E, decpt, d, n, lo, NextUp(lo, decpt))

Shortest(E, decpt, d, n) ==
    IF n >= Len(E) THEN [digits |-> E, decpt |-> decpt]
    ELSE ShortestFrom(E, decpt, d, n, SubSeq(E, 1, n))

\* the digits of the expansion x that repr keeps
DtoaOf(x, d) == Shortest(x.digits, x.decpt, d, 1)

\* float_repr_style 'short': the digits of repr(v) for a finite double v # 0
dtoa(d) == DtoaOf(Expansion(d), d)

\* the value of the exponent x of a Float64 field, [-+]?\d+; an exponent of
\* more than seven digits makes the float zero or infinite whatever its size
ExponentValue(x) ==
    LET size(z) == IF Len(z) > 7 THEN 10000000 ELSE DecimalValue(z)
        signed(neg, u) == IF neg THEN 0 - size(u) ELSE size(u)
    IN  signed(Len(x) > 0 /\ x[1] = "-", LStrip(Unsigned(x, {"-", "+"}), DecimalDigits[1]))

\* the first position of s holding a character of C, Len(s) + 1 if none
FindChar(s, C) == SetMin({k \in 1..(Len(s) + 1) : k > Len(s) \/ s[k] \in C})

DigitValues(D) == [i \in 1..Len(D) |-> DigitVal(D[i])]

\* integer part ip, fraction fp, exponent x, and the digits nz of both parts
\* without leading zeros
FloatDigits(ip, fp, x, nz) ==
    [digits |-> DigitValues(RStrip(nz, DecimalDigits[1])),
     decpt |-> Len(ip) - (Len(ip \o fp) - Len(nz)) + x]

FloatPoint(ip, fp, x) == FloatDigits(ip, fp, x, LStrip(ip \o fp, DecimalDigits[1]))

\* mantissa m with its point at position p
FloatMantissa(m, p, x) ==
    FloatPoint(SubSeq(m, 1, p - 1),
               IF p > Len(m) THEN <<>> ELSE SubSeq(m, p + 1, Len(m)), x)

\* unsigned field b with its exponent mark at position e
FloatExponent(b, e) ==
    FloatMantissa(SubSeq(b, 1, e - 1), FindChar(SubSeq(b, 1, e - 1), {"."}),
                  IF e > Len(b) THEN 0 ELSE ExponentValue(SubSeq(b, e + 1, Len(b))))

FloatUnsigned(b) == FloatExponent(b, FindChar(b, {"e", "E"}))

\* a Float64 field as significant digits d1 d2 ... without leading and trailing
\* zeros, and decimal point: the magnitude is 0.d1d2... * 10^decpt
FloatParts(f) == FloatUnsigned(Unsigned(f, {"-", "+"}))

\* the double v with the sign of the field f
FloatSigned(f, v) ==
    [neg |-> Len(f) > 0 /\ f[1] = "-", kind |-> v.kind, m |-> v.m, s |-> v.s]

FloatParsed(f, p) == FloatSigned(f, strtod(p.digits, p.decpt))

\* b is the field without its sign
FloatOf(f, b) ==
    IF b = <<"N", "a", "N">> \/ b = nan THEN FloatSigned(f, NanDouble)
    ELSE IF b = inf THEN FloatSigned(f, InfDouble)
    ELSE FloatParsed(f, FloatParts(f))

\* float(f): the double, with its sign, that read_csv makes of a Float64 field
\* and that repr(v) reads back as
float(f) == FloatOf(f, Unsigned(f, {"-", "+"}))

\* the exponent of repr(float): a sign and at least two digits
ExponentText(e) ==
    LET a == IF e < 0 THEN 0 - e ELSE e
    IN  <<"e", IF e < 0 THEN "-" ELSE "+">>
        \o (IF a < 10 THEN <<"0">> ELSE <<>>) \o NatToText(a)

\* the characters of the decimal digits D
DigitsText(D) == [i \in 1..Len(D) |-> DigitChars[D[i] + 1]]

\* the sign s, the digits D, their number n and the decimal point: positional
\* notation for 1e-4 <= |v| < 1e16 and exponent notation otherwise
ReprText(s, D, n, decpt) ==
    IF -4 < decpt /\ decpt <= 16
    THEN s \o (IF decpt <= 0
               THEN <<"0", ".">> \o Repeat("0", 0 - decpt) \o D
               ELSE IF decpt >= n
               THEN D \o Repeat("0", decpt - n) \o <<".", "0">>
               ELSE SubSeq(D, 1, decpt) \o <<".">> \o SubSeq(D, decpt + 1, n))
    ELSE s \o <<D[1]>> \o (IF n > 1 THEN <<".">> \o Tail(D) ELSE <<>>)
           \o ExponentText(decpt - 1)

ReprDigits(s, r) == ReprText(s, DigitsText(r.digits), Len(r.digits), r.decpt)

ReprSigned(v, s) ==
    IF v.kind = "nan" THEN nan
    ELSE IF v.kind = "inf" THEN s \o inf
    ELSE IF v.kind = "zero" THEN s \o <<"0", ".", "0">>
    ELSE ReprDigits(s, dtoa([kind |-> v.kind, m |-> v.m, s |-> v.s]))

\* repr(v) of a float: the shortest digits that read back as v
float_repr(v) == ReprSigned(v, IF v.neg THEN <<"-">> ELSE <<>>)

\* repr(float(f)) of a Float64 field
FloatRepr(f) == float_repr(float(f))

\* The cast of a Float64 to String (polars): the shortest digits that read back
\* as the float, in positional notation for 1e-5 <= |v| < 1e16 and else with
\* an exponent that has no '+' sign and no leading zero
CastExponent(e) ==
    <<"e">> \o (IF e < 0 THEN <<"-">> \o NatToText(0 - e) ELSE NatToText(e))

CastText(s, D, n, decpt) ==
    IF -5 < decpt /\ decpt <= 16
    THEN s \o (IF decpt <= 0
               THEN <<"0", ".">> \o Repeat("0", 0 - decpt) \o D
               ELSE IF decpt >= n
               THEN D \o Repeat("0", decpt - n) \o <<".", "0">>
               ELSE SubSeq(D, 1, decpt) \o <<".">> \o SubSeq(D, decpt + 1, n))
    ELSE s \o <<D[1]>> \o (IF n > 1 THEN <<".">> \o Tail(D) ELSE <<>>)
           \o CastExponent(decpt - 1)

CastDigits(s, r) == CastText(s, DigitsText(r.digits), Len(r.digits), r.decpt)

CastSigned(v, s) ==
    IF v.kind = "nan" THEN <<"N", "a", "N">>
    ELSE IF v.kind = "inf" THEN s \o inf
    ELSE IF v.kind = "zero" THEN s \o <<"0", ".", "0">>
    ELSE CastDigits(s, dtoa([kind |-> v.kind, m |-> v.m, s |-> v.s]))

\* v.cast(pl.String) of a float
float_to_string(v) == CastSigned(v, IF v.neg THEN <<"-">> ELSE <<>>)

\* the magnitude of the integer with the text f, [-+]?\d+
IntMagnitude(f) == Natural(DigitValues(Unsigned(f, {"-", "+"})))

\* the field f of a column inferred as Int64 is an integer outside Int64
OutsideInt64(f) ==
    /\ IsIntegerField(f)
    /\ \A k \in 1..Len(f) : f[k] \in AsciiDigits \cup {"-"}
    /\ ~InInt64(f[1] = "-", IntMagnitude(f))

\* the patterns accept what the parsers of the typed columns reject: decimal
\* digits of other scripts and the long s in a column inferred as a number or
\* as Boolean, and an integer outside Int64 in a column inferred as Int64; such
\* a field makes read_csv raise ComputeError
ReadCsvRaises(table) ==
    \E c \in UNION {DOMAIN table[i] : i \in DOMAIN table} :
        /\ dtype(table, c) # "String"
        /\ \E i \in DOMAIN table :
              /\ c \in DOMAIN table[i]
              /\ \/ \E k \in 1..Len(table[i][c]) :
                       \/ table[i][c][k] \in Decimal /\ table[i][c][k] \notin AsciiDigits
                       \/ table[i][c][k] = "U+017F"
                 \/ dtype(table, c) = "Int64" /\ OutsideInt64(table[i][c])

\* str(n) of the integer with sign neg and magnitude a
IntText(neg, a) ==
    IF a = <<>> THEN <<"0">>
    ELSE (IF neg THEN <<"-">> ELSE <<>>) \o DigitsText(NatDigits(a))

\* str(v) of the cell with field f in a column of dtype dt
str(dt, f) ==
    CASE dt = "String" -> f
      [] dt = "Int64" -> IntText(f[1] = "-", IntMagnitude(f))
      [] dt = "Float64" -> FloatRepr(f)
      [] dt = "Boolean" -> IF IsTrueField(f) THEN <<"T", "r", "u", "e">>
                           ELSE <<"F", "a", "l", "s", "e">>

\* the truth value of that cell: None, 0, 0.0 and False are falsy
bool(dt, f) ==
    /\ f # <<>>
    /\ CASE dt = "String" -> TRUE
         [] dt = "Int64" -> IntMagnitude(f) # <<>>
         [] dt = "Float64" -> float(f).kind # "zero"
         [] dt = "Boolean" -> IsTrueField(f)

NULL == <<>>

\* the Python value of the cell with field f in a column of dtype dt: None for
\* an empty field, the text in a String column, and otherwise the dtype with
\* str(v), which tells the values of the dtype apart
PyValue(dt, f) ==
    IF f = <<>> THEN NULL
    ELSE IF dt = "String" THEN f
    ELSE <<dt, str(dt, f)>>

\* the type of such a value
TypeOf(v) ==
    IF v = NULL THEN "NoneType"
    ELSE IF Len(v) = 2 /\ v[1] \in {"Int64", "Float64", "Boolean"} THEN v[1]
    ELSE "String"

(* ------------------------------------------------------------------------ *)
(* Numeric resolver: the loop that builds id_map in the identifier-keyed    *)
(* adapters                                                                 *)
(* ------------------------------------------------------------------------ *)
\* The resolver state is [err, id_map, keys]: err is TRUE once the loop has
\* raised, which ends the adapter; id_map is the dict built so far and keys are
\* its keys in the order a dict keeps them, that of their first insertion.
NoLookup == [err |-> FALSE, id_map |-> EmptyDict, keys |-> <<>>]

\* st.id_map[k] = v
SetItem(st, k, v) ==
    [st EXCEPT !.id_map = DictSet(st.id_map, k, v),
               !.keys = IF k \in DOMAIN st.id_map THEN @ ELSE Append(@, k)]

\* inner loop: for sid in str(ids).split(";"): strip, isdigit, id_map[int] = cat;
\* int() raises ValueError on a digit that is not a decimal digit
RECURSIVE InsertIds(_, _, _)
InsertIds(st, parts, cat) ==
    IF parts = <<>> \/ st.err THEN st
    ELSE LET sid == strip(Head(parts))
             st2 == IF ~isdigit(sid) THEN st
                    ELSE IF ~IntAccepts(sid) THEN [st EXCEPT !.err = TRUE]
                    ELSE SetItem(st, int(sid), cat)
         IN  InsertIds(st2, Tail(parts), cat)

\* outer loop over rows, the cells of the identifier column being of dtype dt
\* and those of the category column of dtype ct
RECURSIVE ResolveRows(_, _, _, _, _, _)
\* the body of the loop; truthy and text are bool(ids) and str(ids) of the
\* row's cell: if ids and str(ids) != "nan" and str(ids).strip()
ResolveIds(st, truthy, text, cat) ==
    IF truthy /\ text # nan /\ strip(text) # <<>>
    THEN InsertIds(st, split(text, ";"), cat)
    ELSE st

\* ids = row.get(idcol), cat = row[catcol]
ResolveCell(st, dt, ct, ids, cat) ==
    ResolveIds(st, bool(dt, ids), str(dt, ids), PyValue(ct, cat))

ResolveRow(st, row, dt, ct, idcol, catcol) ==
    ResolveCell(st, dt, ct, RowGet(row, idcol), row[catcol])

ResolveRows(st, rows, dt, ct, idcol, catcol) ==
    IF rows = <<>> \/ st.err THEN st
    ELSE ResolveRows(ResolveRow(st, Head(rows), dt, ct, idcol, catcol),
                     Tail(rows), dt, ct, idcol, catcol)

\* the loop over the rows of one mapping table as read_csv returned it,
\* starting from state st
ResolveInto(st, table, idcol, catcol) ==
    ResolveRows(st, table, dtype(table, idcol), dtype(table, catcol), idcol, catcol)

ResolveNumeric(table, idcol, catcol) == ResolveInto(NoLookup, table, idcol, catcol)

(* ------------------------------------------------------------------------ *)
(* Mapping tables                                                           *)
(* ------------------------------------------------------------------------ *)
\* characters the drawn identifier lists are made of: two ASCII digits, the
\* separator, a space, a sign, SUPERSCRIPT TWO (a digit for isdigit, not for
\* int) and ARABIC-INDIC DIGIT ONE (a decimal digit that is not ASCII)
Alphabet == {"0", "1", ";", " ", "-", "²", "U+0661"}

Texts(n) == UNION {[1..k -> Alphabet] : k \in 0..n}

\* vital_category / lab_category of the first rows of the mapping tables
VitalCategories ==
    << <<"t","e","m","p","_","c">>, <<"h","e","a","r","t","_","r","a","t","e">>,
       <<"s","b","p">>, <<"d","b","p">> >>

LabCategories ==
    << <<"a","l","b","u","m","i","n">>, <<"a","l","t">>, <<"a","s","t">>,
       <<"b","u","n">> >>

\* all lists of k identifier-list cells using at most budget characters
RECURSIVE IdCells(_, _)
IdCells(k, budget) ==
    IF k = 0 THEN {<<>>}
    ELSE UNION { { <<s>> \o t : t \in IdCells(k - 1, budget - Len(s)) } :
                 s \in Texts(budget) }

VitalsRow(i, idcol, s) ==
    [c \in {"vital_category", idcol} |->
        IF c = "vital_category" THEN VitalCategories[i] ELSE s]

LabsRow(i, idcol, s) ==
    [c \in {"lab_category", idcol} |->
        IF c = "lab_category" THEN LabCategories[i] ELSE s]

(* ------------------------------------------------------------------------ *)
(* Resolver specification: the lookup built by each adapter from drawn      *)
(* mapping tables                                                           *)
(* ------------------------------------------------------------------------ *)
VARIABLES rSource, rVitals, rLabs, rWho, rLookup

rvars == <<rSource, rVitals, rLabs, rWho, rLookup>>

NumericSources == {"sic", "hirid", "aumc"}

get_source_column(source) ==
    CASE source = "eicu" -> "eicu_ids" [] source = "hirid" -> "hirid_ids"
      [] source = "aumc" -> "aumc_ids" [] source = "sic" -> "sic_ids"

sic_vitals_id_map(vitals_map) == ResolveNumeric(vitals_map, "sic_ids", "vital_category")

sic_labs_id_map(labs_map) == ResolveNumeric(labs_map, "sic_ids", "lab_category")

hirid_id_map(vitals_map, labs_map) ==
    ResolveInto(ResolveNumeric(vitals_map, "hirid_ids", "vital_category"),
                labs_map, "hirid_ids", "lab_category")

aumc_id_map(vitals_map, labs_map) ==
    ResolveInto(ResolveNumeric(vitals_map, "aumc_ids", "vital_category"),
                labs_map, "aumc_ids", "lab_category")

(* ------------------------------------------------------------------------ *)
(* Frames, native tables and the mapping files of the pipeline              *)
(* ------------------------------------------------------------------------ *)
SUPPORTED_SOURCES == {"eicu", "hirid", "aumc", "sic"}

\* load order of the mapping types in __init__
MappingTypes == <<"vitals", "labs", "medications", "respiratory_support">>

Absent == [exists |-> FALSE, rows |-> <<>>]

File(rows) == [exists |-> TRUE, rows |-> rows]

\* df.filter(pred): the rows of a frame that pass, in order
RECURSIVE Filter(_, _)
Filter(rows, keep) ==
    IF rows = <<>> THEN <<>>
    ELSE (IF Head(rows) \in keep THEN <<Head(rows)>> ELSE <<>>)
         \o Filter(Tail(rows), keep)

\* a replace that turns unmapped values into null
ReplaceOrNull(mapping, v) == IF v \in DOMAIN mapping THEN mapping[v] ELSE NULL

\* expr.replace(mapping): mapped values are replaced, the others kept
Replace(mapping, v) == IF v \in DOMAIN mapping THEN mapping[v] ELSE v

temp_c == <<"t","e","m","p","_","c">>
heart_rate == <<"h","e","a","r","t","_","r","a","t","e">>
sbp == <<"s","b","p">>
dbp == <<"d","b","p">>
spo2 == <<"s","p","o","2">>
respiratory_rate == <<"r","e","s","p","i","r","a","t","o","r","y","_","r","a","t","e">>
map == <<"m","a","p">>
albumin == <<"a","l","b","u","m","i","n">>
potassium == <<"p","o","t","a","s","s","i","u","m">>

\* eicu_vital_map, in key order
EicuVitalCols ==
    <<"temperature", "heartrate", "systemicsystolic", "systemicdiastolic",
      "sao2", "respiration", "systemicmean">>

eicu_vital_map ==
    [c \in {EicuVitalCols[i] : i \in 1..Len(EicuVitalCols)} |->
        CASE c = "temperature" -> temp_c
          [] c = "heartrate" -> heart_rate
          [] c = "systemicsystolic" -> sbp
          [] c = "systemicdiastolic" -> dbp
          [] c = "sao2" -> spo2
          [] c = "respiration" -> respiratory_rate
          [] c = "systemicmean" -> map]

\* The mapping files a run may find. The "built" tables have the identifier
\* columns the builder writes; the others also carry a sic_ids column.
VitalsBuilt ==
    << [vital_category |-> temp_c, eicu_ids |-> <<>>,
        hirid_ids |-> <<"1">>, aumc_ids |-> <<"1">>],
       [vital_category |-> heart_rate, eicu_ids |-> <<>>,
        hirid_ids |-> <<"2",";"," ","x">>, aumc_ids |-> <<"2",";"," ","x">>] >>

VitalsWithSic ==
    << [vital_category |-> temp_c, eicu_ids |-> <<>>, sic_ids |-> <<"1">>,
        hirid_ids |-> <<"1">>, aumc_ids |-> <<"1">>],
       [vital_category |-> heart_rate, eicu_ids |-> <<>>, sic_ids |-> <<" ","2",";","x">>,
        hirid_ids |-> <<>>, aumc_ids |-> <<>>] >>

LabsBuilt ==
    << [lab_category |-> albumin, eicu_ids |-> <<"A","l","b">>,
        hirid_ids |-> <<"2">>, aumc_ids |-> <<"2">>],
       [lab_category |-> potassium, eicu_ids |-> <<>>,
        hirid_ids |-> <<>>, aumc_ids |-> <<>>] >>

LabsWithSic ==
    << [lab_category |-> albumin, eicu_ids |-> <<>>, sic_ids |-> <<"2">>,
        hirid_ids |-> <<>>, aumc_ids |-> <<>>],
       [lab_category |-> potassium, eicu_ids |-> <<"A","l","b">>, sic_ids |-> <<"x">>,
        hirid_ids |-> <<>>, aumc_ids |-> <<>>] >>

\* a built labs table in which one entry lists two eICU lab names
LabsListed ==
    << [lab_category |-> potassium, eicu_ids |-> <<"K",";"," ","A","l","b">>,
        hirid_ids |-> <<>>, aumc_ids |-> <<>>] >>

\* a labs table whose eICU identifiers are item numbers: read_csv gives the
\* eicu_ids column the dtype Int64
LabsNumbered ==
    << [lab_category |-> albumin, eicu_ids |-> <<"5">>, sic_ids |-> <<"2">>,
        hirid_ids |-> <<"2">>, aumc_ids |-> <<"2">>] >>

\* a vitals table whose only HiRID identifier is an Arabic-Indic one: the
\* column is inferred as Int64 and the field does not parse as one
VitalsUnreadable ==
    << [vital_category |-> temp_c, eicu_ids |-> <<>>,
        hirid_ids |-> <<"U+0661">>, aumc_ids |-> <<"1">>] >>

\* a vitals table whose entry has no category: the cell is None
VitalsBlank ==
    << [vital_category |-> <<>>, eicu_ids |-> <<>>, sic_ids |-> <<"1">>,
        hirid_ids |-> <<"1">>, aumc_ids |-> <<"1">>] >>

VitalsMapPool == {VitalsBuilt, VitalsWithSic, VitalsUnreadable, VitalsBlank}

LabsMapPool == {LabsBuilt, LabsWithSic, LabsListed, LabsNumbered}

\* native values the drawn source tables are made of: one encounter (id 7),
\* one observation time per row position
TimeAt(i) == 5 * (i - 1)

ItemIds == {1, 2, 9}

Cells(v) == {NULL, <<v>>}

LabNames == { <<"A","L","B">>, <<"K">> }

\* column bindings of the identifier-keyed adapters
SicVitalsCfg ==
    [enc |-> "CaseID", time |-> "Offset", item |-> "DataID", val |-> "Val",
     out_time |-> "recorded_dttm_offset_min", out_cat |-> "vital_category",
     out_val |-> "vital_value", domain |-> "vitals"]

SicLabsCfg ==
    [enc |-> "CaseID", time |-> "Offset", item |-> "LaboratoryID",
     val |-> "LaboratoryValue",
     out_time |-> "lab_collect_dttm_offset_min", out_cat |-> "lab_category",
     out_val |-> "lab_value", domain |-> "labs"]

HiridCfg ==
    [enc |-> "patientid", time |-> "datetime", item |-> "variableid", val |-> "value",
     out_time |-> "recorded_dttm", out_cat |-> "vital_category",
     out_val |-> "vital_value", domain |-> "vitals"]

AumcCfg ==
    [enc |-> "admissionid", time |-> "measuredat", item |-> "itemid", val |-> "value",
     out_time |-> "recorded_dttm", out_cat |-> "vital_category",
     out_val |-> "vital_value", domain |-> "vitals"]

NoTable == [exists |-> FALSE, cols |-> {}, rows |-> <<>>]

\* What _etl_hirid_vitals finds under the data path, in the field obs:
\*   "absent"        neither observation_tables nor observations nor
\*                   observations.parquet
\*   "regular_file"  a regular file at the path of an observations directory
\*   "empty_dir"     an observations directory without *.parquet and *.csv files
\*   "parquet_dir"   an observations directory with *.parquet files
\*   "csv_dir"       an observations directory with *.csv files only
\*   "single_file"   no observations directory, and observations.parquet
\* The table exists when there is a file that holds observations.
ObsAbsent == [exists |-> FALSE, obs |-> "absent", cols |-> {}, rows |-> <<>>]

ObsRegularFile == [exists |-> TRUE, obs |-> "regular_file", cols |-> {}, rows |-> <<>>]

ObsEmptyDir == [exists |-> FALSE, obs |-> "empty_dir", cols |-> {}, rows |-> <<>>]

\* obs_dir.exists() after the two assignments of obs_dir
obs_dir_exists(tbl) == tbl.obs \in {"regular_file", "empty_dir", "parquet_dir", "csv_dir"}

\* obs_file.exists(), evaluated when obs_dir does not exist
obs_file_exists(tbl) == tbl.obs = "single_file"

\* obs_dir.is_dir()
is_dir(tbl) == tbl.obs \in {"empty_dir", "parquet_dir", "csv_dir"}

\* long-format native tables of at most n rows
IdKeyedTables(cfg, n) ==
    UNION { { [exists |-> TRUE, cols |-> {}, rows |-> [i \in 1..k |->
                 [c \in {cfg.enc, cfg.time, cfg.item, cfg.val} |->
                     CASE c = cfg.enc -> 7
                       [] c = cfg.time -> TimeAt(i)
                       [] c = cfg.item -> f[i][1]
                       [] c = cfg.val -> f[i][2]]]] :
              f \in [1..k -> ItemIds \X Cells(5)] } : k \in 0..n }

\* the observations of HiRID of at most n rows, in each layout that holds them
HiridTables(n) ==
    { [exists |-> TRUE, obs |-> o, cols |-> t.cols, rows |-> t.rows] :
        t \in IdKeyedTables(HiridCfg, n), o \in {"parquet_dir", "csv_dir", "single_file"} }

\* id_cols of _etl_eicu_vitals
id_cols == <<"patientunitstayid", "observationoffset">>

\* vitalperiodic.csv with both id columns, the cvp column and the known value
\* columns A, of at most n rows; cols are the names of its columns
EicuVitalWithIds(n) ==
    UNION { UNION { { [exists |-> TRUE, cols |-> Range(id_cols) \cup {"cvp"} \cup A,
                       rows |-> [i \in 1..k |->
                           [c \in Range(id_cols) \cup {"cvp"} \cup A |->
                               CASE c = "patientunitstayid" -> 7
                                 [] c = "observationoffset" -> TimeAt(i)
                                 [] c = "cvp" -> <<9>>
                                 [] OTHER -> f[i][c]]]] :
                      f \in [1..k -> [A -> Cells(88)]] } : k \in 0..n } :
            A \in SUBSET {"heartrate", "temperature"} }

\* vitalperiodic.csv of one row that lacks an id column
EicuVitalLackingId ==
    { [exists |-> TRUE, cols |-> I \cup {"cvp"} \cup A,
       rows |-> << [c \in I \cup {"cvp"} \cup A |->
                      CASE c = "patientunitstayid" -> 7
                        [] c = "observationoffset" -> TimeAt(1)
                        [] c = "cvp" -> <<9>>
                        [] OTHER -> <<88>>] >>] :
        I \in (SUBSET Range(id_cols)) \ {Range(id_cols)},
        A \in SUBSET {"heartrate", "temperature"} }

\* the files vitalperiodic.csv may be
EicuVitalTables(n) == EicuVitalWithIds(n) \cup EicuVitalLackingId

\* the columns _etl_eicu_labs selects from lab.csv
LabColumns == {"patientunitstayid", "labresultoffset", "labname", "labresult"}

\* a lab.csv without its labresult column
LabTableNoResult ==
    [exists |-> TRUE, cols |-> LabColumns \ {"labresult"},
     rows |-> << [patientunitstayid |-> 7, labresultoffset |-> 0, labname |-> <<"K">>] >>]

\* lab.csv of at most n rows
EicuLabTables(n) ==
    UNION { { [exists |-> TRUE, cols |-> LabColumns, rows |-> [i \in 1..k |->
                 [patientunitstayid |-> 7, labresultoffset |-> TimeAt(i),
                  labname |-> f[i][1], labresult |-> f[i][2]]]] :
              f \in [1..k -> LabNames \X Cells(4)] } : k \in 0..n }

(* ------------------------------------------------------------------------ *)
(* The transformations of the adapters                                      *)
(* ------------------------------------------------------------------------ *)
\* a write that appends to the file that is there
write_parquet_append(fs, domain, rows) ==
    [fs EXCEPT ![domain] = File((IF fs[domain].exists THEN fs[domain].rows ELSE <<>>) \o rows)]

\* df.write_parquet(output_path / "<domain>.parquet"): the file is replaced
write_parquet(fs, domain, rows) == [fs EXCEPT ![domain] = File(rows)]

\* the exceptions that end the program
Exceptions ==
    {"FileNotFoundError", "ComputeError", "ValueError", "AttributeError",
     "ColumnNotFoundError", "InvalidOperationError", "TypeError",
     "UnboundLocalError"}

\* list(id_map.values()): the values in the order of their keys
values(st) == [i \in 1..Len(st.keys) |-> st.id_map[st.keys[i]]]

\* Expr.replace(id_map) (polars 1.x, the versions that have collect_schema and
\* unpivot) makes pl.Series(list(id_map.values())) of the new values and casts
\* it to the dtype of the column.  A Series without a given dtype takes it
\* from its first value that is not None.
SeriesDtype(vals) ==
    LET I == {i \in 1..Len(vals) : vals[i] # NULL}
    IN  IF I = {} THEN "Null" ELSE TypeOf(vals[SetMin(I)])

\* a value of type u goes into a Series of dtype t: None into any, an int and
\* a bool into Float64 (as a float), a bool into Int64 (as 0 or 1), and apart
\* from these a value of the type of the Series only
Fits(t, u) ==
    \/ u \in {"NoneType", t}
    \/ t = "Float64" /\ u \in {"Int64", "Boolean"}
    \/ t = "Int64" /\ u = "Boolean"

\* a str casts to Int64 when it is an optional sign followed by ASCII digits
\* and the number is an Int64
CastsToInt64(t) ==
    LET b == Unsigned(t, {"-", "+"})
    IN  /\ Len(b) > 0 /\ \A i \in 1..Len(b) : b[i] \in AsciiDigits
        /\ InInt64(t[1] = "-", IntMagnitude(t))

\* the magnitude of a finite double d without its fraction
Trunc(d) ==
    IF d.kind = "zero" THEN <<>>
    ELSE IF d.s >= 0 THEN Times(d.m, "2", d.s)
    ELSE Times(d.m, "1/2", 0 - d.s)

\* the float a number v is in a Series of dtype Float64: float(v)
SeriesFloat(v) ==
    float(IF TypeOf(v) = "Boolean"
          THEN (IF v[2] = <<"T", "r", "u", "e">> THEN <<"1">> ELSE <<"0">>)
          ELSE v[2])

\* the strict cast to Int64 of a value v of a Series of dtype t fails: a str
\* that is no Int64, and a float that is NaN, infinite or out of range
FloatCastFails(d) == d.kind \in {"nan", "inf"} \/ ~InInt64(d.neg, Trunc(d))

CastFails(t, v) ==
    CASE t = "String" -> ~CastsToInt64(v)
      [] t = "Float64" -> FloatCastFails(SeriesFloat(v))
      [] OTHER -> FALSE

\* the Int64 cell that cast gives: None stays null, a float loses its fraction,
\* True is 1 and False is 0
FloatCastInt64(d) == <<"Int64", IntText(d.neg, Trunc(d))>>

CastInt64(t, v) ==
    CASE v = NULL -> NULL
      [] v # NULL /\ t = "String" -> <<"Int64", IntText(v[1] = "-", IntMagnitude(v))>>
      [] v # NULL /\ t = "Float64" -> FloatCastInt64(SeriesFloat(v))
      [] v # NULL /\ t \notin {"String", "Float64"} /\ TypeOf(v) = "Boolean" ->
           <<"Int64", IF v[2] = <<"T", "r", "u", "e">> THEN <<"1">> ELSE <<"0">>>>
      [] OTHER -> v

\* what pl.col(item).replace(id_map) on the Int64 identifier column raises,
\* vals being list(id_map.values()): TypeError when pl.Series(vals) meets a
\* value that does not go into a Series of its dtype; InvalidOperationError
\* when a value does not cast to Int64
replace_exception(vals) ==
    IF \E i \in 1..Len(vals) : ~Fits(SeriesDtype(vals), TypeOf(vals[i]))
    THEN "TypeError"
    ELSE IF \E i \in 1..Len(vals) :
               vals[i] # NULL /\ CastFails(SeriesDtype(vals), vals[i])
    THEN "InvalidOperationError"
    ELSE "none"

\* replace, rename and select on one row, t being the dtype of the Series of
\* the new values: an identifier of the lookup becomes its value cast to
\* Int64, any other one stays
ReplacedRow(r, lookup, t, cfg) ==
    [c \in {"hospitalization_id", cfg.out_time, cfg.out_cat, cfg.out_val} |->
        CASE c = "hospitalization_id" -> r[cfg.enc]
          [] c = cfg.out_time -> r[cfg.time]
          [] c = cfg.out_cat ->
               IF r[cfg.item] \in DOMAIN lookup
               THEN CastInt64(t, lookup[r[cfg.item]])
               ELSE <<"Int64", IntToText(r[cfg.item])>>
          [] c = cfg.out_val -> r[cfg.val]]

ReplacedRows(df, lookup, t, cfg) ==
    [i \in 1..Len(df) |-> ReplacedRow(df[i], lookup, t, cfg)]

\* filter(value is not null) on the replaced rows, unless replace raised
ClifRows(all, raised, cfg) ==
    IF raised # "none" THEN [raised |-> raised, rows |-> <<>>]
    ELSE [raised |-> "none",
          rows |-> Filter(all, {r \in {all[i] : i \in 1..Len(all)} :
                                   r[cfg.out_val] # NULL})]

\* replace + rename + select + filter(value is not null) of the identifier-keyed
\* adapters, on the rows the identifier filter kept, st being what the resolver
\* loop gave: what was raised, or the rows
IdKeyedClif(df, st, cfg) ==
    ClifRows(ReplacedRows(df, st.id_map, SeriesDtype(values(st)), cfg),
             replace_exception(values(st)), cfg)

\* the transformed frame clif is written unless replace raised
IdKeyedReplaced(clif, cfg, fs) ==
    IF clif.raised # "none" THEN [outcome |-> clif.raised, files |-> fs]
    ELSE [outcome |-> "wrote", files |-> write_parquet(fs, cfg.domain, clif.rows)]

\* the collected frame df: return on zero rows, else transform and write
IdKeyedCollected(df, st, cfg, fs) ==
    IF Len(df) = 0 THEN [outcome |-> "no_match", files |-> fs]
    ELSE IdKeyedReplaced(IdKeyedClif(df, st, cfg), cfg, fs)

\* an identifier-keyed adapter, st being what its resolver loop gives: return
\* when the table is absent; build the lookup; filter to the mapped identifiers
\* and collect; return on zero rows; else replace, rename, drop nulls and write
IdKeyedEtl(tbl, st, cfg, fs) ==
    IF ~tbl.exists THEN [outcome |-> "skipped", files |-> fs]
    ELSE IF st.err THEN [outcome |-> "ValueError", files |-> fs]
    ELSE IdKeyedCollected(Filter(tbl.rows,
                                 {r \in {tbl.rows[i] : i \in 1..Len(tbl.rows)} :
                                     r[cfg.item] \in DOMAIN st.id_map}),
                          st, cfg, fs)

\* _etl_hirid_vitals.  The adapter returns when neither an observations
\* directory nor observations.parquet exists, and builds the lookup otherwise.
\* Then, for a directory, it scans the *.parquet files or, when there is none,
\* the *.csv files, and scan_csv of an empty list raises ComputeError; for what
\* is no directory it scans obs_file, which is bound only when no observations
\* path exists, so a regular file at such a path raises UnboundLocalError.
HiridEtl(tbl, st, fs) ==
    IF ~obs_dir_exists(tbl) /\ ~obs_file_exists(tbl)
    THEN [outcome |-> "skipped", files |-> fs]
    ELSE IF st.err THEN [outcome |-> "ValueError", files |-> fs]
    ELSE IF is_dir(tbl) /\ tbl.obs = "empty_dir"
    THEN [outcome |-> "ComputeError", files |-> fs]
    ELSE IF ~is_dir(tbl) /\ obs_dir_exists(tbl)
    THEN [outcome |-> "UnboundLocalError", files |-> fs]
    ELSE IdKeyedEtl(tbl, st, HiridCfg, fs)

\* value_cols: cols_to_extract without the id columns, which are the known
\* columns the file has, in eicu_vital_map key order
value_cols(available_cols) ==
    LET present(c) == c \in available_cols IN SelectSeq(EicuVitalCols, present)

\* cols_to_extract: the id columns, whether the file has them or not, and the
\* known columns it has
cols_to_extract(available_cols) == id_cols \o value_cols(available_cols)

\* an unpivot of the first value column only
unpivot_first_column(rows, on) ==
    IF on = <<>> THEN <<>>
    ELSE [i \in 1..Len(rows) |->
            [patientunitstayid |-> rows[i]["patientunitstayid"],
             observationoffset |-> rows[i]["observationoffset"],
             eicu_col |-> Head(on),
             vital_value |-> rows[i][Head(on)]]]

\* df.unpivot(index=id_cols, on=value_cols): one block of rows per value column
RECURSIVE unpivot(_, _)
unpivot(rows, on) ==
    IF on = <<>> THEN <<>>
    ELSE [i \in 1..Len(rows) |->
            [patientunitstayid |-> rows[i]["patientunitstayid"],
             observationoffset |-> rows[i]["observationoffset"],
             eicu_col |-> Head(on),
             vital_value |-> rows[i][Head(on)]]]
         \o unpivot(rows, Tail(on))

\* replace + rename + select + filter(vital_value is not null)
EicuVitalsClif(long) ==
    LET all == [i \in 1..Len(long) |->
                   [hospitalization_id |-> long[i].patientunitstayid,
                    recorded_dttm_offset_min |-> long[i].observationoffset,
                    vital_category |-> Replace(eicu_vital_map, long[i].eicu_col),
                    vital_value |-> long[i].vital_value]]
    IN  Filter(all, {r \in {all[i] : i \in 1..Len(all)} : r.vital_value # NULL})

\* the loop that builds lab_map in the eICU labs adapter, the cells of the
\* eicu_ids column being of dtype dt and those of the lab_category column of
\* dtype ct: lab_map[eicu_ids.lower()] = lab_category; an int, a float and a
\* bool have no lower(), which raises AttributeError
RECURSIVE BuildLabRows(_, _, _, _)
BuildLabRows(st, rows, dt, ct) ==
    IF rows = <<>> \/ st.err THEN st
    ELSE LET body(row, eicu_ids) ==
                 IF ~(bool(dt, eicu_ids) /\ str(dt, eicu_ids) # nan) THEN st
                 ELSE IF dt # "String" THEN [st EXCEPT !.err = TRUE]
                 ELSE SetItem(st, lower(eicu_ids), PyValue(ct, row["lab_category"]))
             get(row) == body(row, RowGet(row, "eicu_ids"))
         IN  BuildLabRows(get(Head(rows)), Tail(rows), dt, ct)

\* the loop over the labs mapping table as read_csv returned it
BuildLabMap(st, table) ==
    BuildLabRows(st, table, dtype(table, "eicu_ids"), dtype(table, "lab_category"))

\* [err, id_map]: err is TRUE when the loop raised AttributeError
eicu_lab_map(labs_map) == BuildLabMap(NoLookup, labs_map)

\* replace on the String column of the lower-cased names casts the new values
\* to String: None stays null, an int is its decimal text, a bool is true or
\* false and a float is written as the cast of Float64 writes it
CastString(v) ==
    CASE TypeOf(v) \in {"NoneType", "String"} -> v
      [] TypeOf(v) = "Boolean" -> lower(v[2])
      [] TypeOf(v) = "Float64" -> float_to_string(float(v[2]))
      [] OTHER -> v[2]

\* with_columns(lab_category) + rename + select + filter(lab_value is not null)
EicuLabsClif(df, lab_map) ==
    LET new == [k \in DOMAIN lab_map |-> CastString(lab_map[k])]
        all == [i \in 1..Len(df) |->
                   [hospitalization_id |-> df[i].patientunitstayid,
                    lab_collect_dttm_offset_min |-> df[i].labresultoffset,
                    lab_category |-> Replace(new, lower(df[i].labname)),
                    lab_value |-> df[i].labresult]]
    IN  Filter(all, {r \in {all[i] : i \in 1..Len(all)} : r.lab_value # NULL})

\* _etl_eicu_vitals as a function of the table it finds and the files there are:
\* return when the file is absent; select(cols_to_extract).collect(), which
\* raises on a column the file does not have; then, if there is a value
\* column, unpivot, map, rename, drop nulls and write
EicuVitalsEtl(tbl, fs) ==
    IF ~tbl.exists THEN [outcome |-> "skipped", files |-> fs]
    ELSE IF ~(Range(cols_to_extract(tbl.cols)) \subseteq tbl.cols)
    THEN [outcome |-> "ColumnNotFoundError", files |-> fs]
    ELSE IF value_cols(tbl.cols) = <<>> THEN [outcome |-> "no_columns", files |-> fs]
    ELSE [outcome |-> "wrote",
          files |-> write_parquet(fs, "vitals",
                        EicuVitalsClif(unpivot(tbl.rows, value_cols(tbl.cols))))]

\* an adapter that removes the output files when it fails
EicuLabsEtlRollback(tbl, st, fs) ==
    IF ~tbl.exists THEN [outcome |-> "skipped", files |-> fs]
    ELSE IF st.err
    THEN [outcome |-> "AttributeError", files |-> [d \in {"vitals", "labs"} |-> Absent]]
    ELSE IF ~(LabColumns \subseteq tbl.cols)
    THEN [outcome |-> "ColumnNotFoundError",
          files |-> [d \in {"vitals", "labs"} |-> Absent]]
    ELSE [outcome |-> "wrote",
          files |-> write_parquet(fs, "labs",
                        EicuLabsClif(tbl.rows, st.id_map))]

\* _etl_eicu_labs as a function of the table it finds, of st, what its lab_map
\* loop gives, and of the files: return when the table is absent; build lab_map,
\* which raises on a cell that is no text; select, which raises
\* on a column the file does not have; map, rename, drop nulls and write
EicuLabsEtl(tbl, st, fs) ==
    IF ~tbl.exists THEN [outcome |-> "skipped", files |-> fs]
    ELSE IF st.err THEN [outcome |-> "AttributeError", files |-> fs]
    ELSE IF ~(LabColumns \subseteq tbl.cols)
    THEN [outcome |-> "ColumnNotFoundError", files |-> fs]
    ELSE [outcome |-> "wrote",
          files |-> write_parquet(fs, "labs",
                        EicuLabsClif(tbl.rows, st.id_map))]

(* ------------------------------------------------------------------------ *)
(* The program: main, OpenCLIFETL.__init__, run and the adapters            *)
(* ------------------------------------------------------------------------ *)
\* number of rows of a drawn native table, in a single run
MaxRows == 2
\* number of rows of a drawn native table, in repeated runs
MaxRerunRows == 1
\* number of candidate *.csv files in one mapping directory
MaxMapFiles == 2

VARIABLES
    pc,          \* position of the process
    source,      \* --source
    csv_files,   \* candidate files found by each load_mappings call so far
    vitals_map,  \* self.vitals_map
    labs_map,    \* self.labs_map
    output_dir,  \* whether the output directory exists
    files,       \* vitals.parquet and labs.parquet of the output directory
    native,      \* the native table the last adapter looked for
    id_map,      \* the lookup the last adapter built
    df_long,     \* the unpivoted frame of the last eICU vitals run
    status       \* what the vitals and the labs adapter of this run reported

pvars == <<pc, source, csv_files, vitals_map, labs_map, output_dir, files,
           native, id_map, df_long, status>>

\* the two adapters of a dataset as independent workers
VARIABLES
    cpc,         \* position of each worker: "idle", "read" or "done"
    ctables,     \* the native table each worker found
    clog         \* the steps of the workers in the order they were taken

cvars == <<cpc, ctables, clog>>

\* the mapping builder (scripts/build_openclif.py)
VARIABLES
    concept_dict,   \* concept-dict.json as loaded
    mapping_files   \* the four mapping files under mappings/

bvars == <<concept_dict, mapping_files>>

\* no mapping file has been built
NoMappingFiles ==
    [t \in {"vitals", "labs", "medications", "respiratory_support"} |->
        [exists |-> FALSE, cols |-> <<>>, rows |-> <<>>]]

vars == <<pvars, rvars, cvars, bvars>>

\* again: the domain whose adapter was last executed a second time on the same input
NoStatus == [vitals |-> "none", labs |-> "none", again |-> "none"]

\* before the program is started: no output directory yet; the resolver
\* variables are not used by the program
Init ==
    /\ pc = "main"
    /\ source \in SUPPORTED_SOURCES
    /\ csv_files = <<>>
    /\ vitals_map = <<>>
    /\ labs_map = <<>>
    /\ output_dir = FALSE
    /\ files = [d \in {"vitals", "labs"} |-> Absent]
    /\ native = NoTable
    /\ id_map = EmptyDict
    /\ df_long = <<>>
    /\ status = NoStatus
    /\ cpc = [d \in {"vitals", "labs"} |-> "idle"]
    /\ ctables = [d \in {"vitals", "labs"} |-> NoTable]
    /\ clog = <<>>
    /\ concept_dict = EmptyDict
    /\ mapping_files = NoMappingFiles
    /\ rSource = "sic"
    /\ rVitals = <<>>
    /\ rLabs = <<>>
    /\ rWho = "none"
    /\ rLookup = EmptyDict

\* main(): the --path check
main ==
    /\ pc = "main"
    /\ \E path_exists \in BOOLEAN :
          pc' = IF path_exists THEN "OpenCLIFETL_init" ELSE "exit1"
    /\ UNCHANGED <<source, csv_files, vitals_map, labs_map, output_dir, files,
                   native, id_map, df_long, status, rvars, cvars, bvars>>

\* a constructor that loads the vitals and labs mappings only
load_used_only(cnt) ==
    IF cnt[1] = 0 THEN [raised |-> TRUE, seen |-> SubSeq(cnt, 1, 1)]
    ELSE IF cnt[2] = 0 THEN [raised |-> TRUE, seen |-> SubSeq(cnt, 1, 2)]
    ELSE [raised |-> FALSE, seen |-> cnt]

\* load_mappings, called for the four mapping types in order: the first empty
\* directory raises FileNotFoundError; otherwise csv_files[0] is read
load_all(cnt) ==
    LET empty == {k \in 1..Len(MappingTypes) : cnt[k] = 0}
    IN  IF empty = {} THEN [raised |-> FALSE, seen |-> cnt]
        ELSE [raised |-> TRUE,
              seen |-> SubSeq(cnt, 1, CHOOSE k \in empty : \A j \in empty : k <= j)]

\* OpenCLIFETL.__init__: v and l are the files of the vitals and the labs
\* mapping directory; a file is read when its directory and those before it
\* are not empty
OpenCLIFETL_init ==
    /\ pc = "OpenCLIFETL_init"
    /\ \E v \in VitalsMapPool : \E l \in LabsMapPool :
       LET vraises == ReadCsvRaises(v)
           lraises == ReadCsvRaises(l)
       IN
       \E cnt \in [1..Len(MappingTypes) -> 0..MaxMapFiles] :
          LET r == load_all(cnt)
              bad == IF cnt[1] > 0 /\ vraises THEN 1
                     ELSE IF Len(r.seen) >= 2 /\ cnt[2] > 0 /\ lraises THEN 2
                     ELSE 0
          IN  IF bad > 0
              THEN /\ pc' = "ComputeError"
                   /\ csv_files' = SubSeq(cnt, 1, bad)
                   /\ UNCHANGED <<vitals_map, labs_map>>
              ELSE IF r.raised
              THEN /\ pc' = "FileNotFoundError"
                   /\ csv_files' = r.seen
                   /\ UNCHANGED <<vitals_map, labs_map>>
              ELSE /\ pc' = "run"
                   /\ csv_files' = r.seen
                   /\ vitals_map' = v
                   /\ labs_map' = l
    /\ UNCHANGED <<source, output_dir, files, native, id_map, df_long, status, rvars, cvars, bvars>>

\* OpenCLIFETL.run up to the dispatch: mkdir(parents=True, exist_ok=True)
run ==
    /\ pc = "run"
    /\ output_dir' = TRUE
    /\ pc' = "vitals"
    /\ csv_files' = <<>>
    /\ UNCHANGED <<source, vitals_map, labs_map, files, native, id_map, df_long,
                   status, rvars, cvars, bvars>>

\* an identifier-keyed adapter: tbl is what it finds on disk, st what its
\* resolver loop gives; an exception ends the program
IdKeyedAdapter(cfg, tbl, st, res, next) ==
        /\ native' = tbl
        /\ id_map' = st.id_map
        /\ pc' = IF res.outcome \in Exceptions THEN res.outcome ELSE next
        /\ files' = res.files
        /\ status' = [status EXCEPT ![cfg.domain] = res.outcome]
        /\ UNCHANGED <<source, csv_files, vitals_map, labs_map, output_dir, df_long,
                       rvars, cvars, bvars>>

etl_eicu_vitals(n) ==
    /\ pc = "vitals" /\ source = "eicu"
    /\ \E tbl \in {NoTable} \cup EicuVitalTables(n) :
          LET res == EicuVitalsEtl(tbl, files)
          IN  /\ native' = tbl
              /\ df_long' = IF res.outcome = "wrote"
                            THEN unpivot(tbl.rows, value_cols(tbl.cols)) ELSE <<>>
              /\ status' = [status EXCEPT !.vitals = res.outcome]
              /\ files' = res.files
              /\ pc' = IF res.outcome \in Exceptions THEN res.outcome ELSE "labs"
    /\ id_map' = EmptyDict
    /\ UNCHANGED <<source, csv_files, vitals_map, labs_map, output_dir, rvars, cvars, bvars>>

etl_eicu_labs(n) ==
    /\ pc = "labs" /\ source = "eicu"
    /\ LET st == eicu_lab_map(labs_map)
       IN  \E tbl \in {NoTable, LabTableNoResult} \cup EicuLabTables(n) :
          LET res == EicuLabsEtl(tbl, st, files)
          IN  /\ native' = tbl
              /\ id_map' = IF tbl.exists THEN st.id_map ELSE EmptyDict
              /\ status' = [status EXCEPT !.labs = res.outcome]
              /\ files' = res.files
              /\ pc' = IF res.outcome \in Exceptions THEN res.outcome ELSE "complete"
    /\ UNCHANGED <<source, csv_files, vitals_map, labs_map, output_dir, df_long, rvars, cvars, bvars>>

etl_sic_vitals(n) ==
    /\ pc = "vitals" /\ source = "sic"
    /\ LET st == sic_vitals_id_map(vitals_map)
       IN  \E tbl \in {NoTable} \cup IdKeyedTables(SicVitalsCfg, n) :
              IdKeyedAdapter(SicVitalsCfg, tbl, IF tbl.exists THEN st ELSE NoLookup,
                             IdKeyedEtl(tbl, st, SicVitalsCfg, files), "labs")

etl_sic_labs(n) ==
    /\ pc = "labs" /\ source = "sic"
    /\ LET st == sic_labs_id_map(labs_map)
       IN  \E tbl \in {NoTable} \cup IdKeyedTables(SicLabsCfg, n) :
              IdKeyedAdapter(SicLabsCfg, tbl, IF tbl.exists THEN st ELSE NoLookup,
                             IdKeyedEtl(tbl, st, SicLabsCfg, files), "complete")

etl_hirid_vitals(n) ==
    /\ pc = "vitals" /\ source = "hirid"
    /\ LET st == hirid_id_map(vitals_map, labs_map)
       IN  \E tbl \in {ObsAbsent, ObsRegularFile, ObsEmptyDir} \cup HiridTables(n) :
              IdKeyedAdapter(HiridCfg, tbl, IF tbl.obs # "absent" THEN st ELSE NoLookup,
                             HiridEtl(tbl, st, files), "labs")

etl_aumc_vitals(n) ==
    /\ pc = "vitals" /\ source = "aumc"
    /\ LET st == aumc_id_map(vitals_map, labs_map)
       IN  \E tbl \in {NoTable} \cup IdKeyedTables(AumcCfg, n) :
              IdKeyedAdapter(AumcCfg, tbl, IF tbl.exists THEN st ELSE NoLookup,
                             IdKeyedEtl(tbl, st, AumcCfg, files), "labs")


\* _etl_hirid_labs and _etl_aumc_labs only print
LabsNoop ==
    /\ pc' = "complete"
    /\ native' = NoTable
    /\ id_map' = EmptyDict
    /\ status' = [status EXCEPT !.labs = "noop"]
    /\ UNCHANGED <<source, csv_files, vitals_map, labs_map, output_dir, files,
                   df_long, rvars, cvars, bvars>>

etl_hirid_labs ==
    /\ pc = "labs" /\ source = "hirid"
    /\ LabsNoop

etl_aumc_labs ==
    /\ pc = "labs" /\ source = "aumc"
    /\ LabsNoop

\* the program is started again on the same output directory
invoke_again ==
    /\ pc \in {"complete", "exit1"} \cup Exceptions
    /\ pc' = "main"
    /\ csv_files' = <<>>
    /\ vitals_map' = <<>>
    /\ labs_map' = <<>>
    /\ native' = NoTable
    /\ id_map' = EmptyDict
    /\ df_long' = <<>>
    /\ status' = NoStatus
    /\ UNCHANGED <<source, output_dir, files, rvars, cvars, bvars>>

\* the adapter of domain dom of dataset src, executed on table tbl with the
\* mapping tables vmap and lmap and the files fs
RunAdapter(src, dom, tbl, vmap, lmap, fs) ==
    CASE src = "eicu" /\ dom = "vitals" -> EicuVitalsEtl(tbl, fs)
      [] src = "eicu" /\ dom = "labs" -> EicuLabsEtl(tbl, eicu_lab_map(lmap), fs)
      [] src = "sic" /\ dom = "vitals" ->
            IdKeyedEtl(tbl, sic_vitals_id_map(vmap), SicVitalsCfg, fs)
      [] src = "sic" /\ dom = "labs" ->
            IdKeyedEtl(tbl, sic_labs_id_map(lmap), SicLabsCfg, fs)
      [] src = "hirid" /\ dom = "vitals" ->
            HiridEtl(tbl, hirid_id_map(vmap, lmap), fs)
      [] src = "aumc" /\ dom = "vitals" ->
            IdKeyedEtl(tbl, aumc_id_map(vmap, lmap), AumcCfg, fs)
      [] OTHER -> [outcome |-> "noop", files |-> fs]

\* the adapter that has just returned is executed once more, with the same
\* native table on disk and the same mapping tables
adapter_again ==
    /\ pc \in {"labs", "complete"}
    /\ LET dom == IF pc = "labs" THEN "vitals" ELSE "labs"
           res == RunAdapter(source, dom, native, vitals_map, labs_map, files)
       IN  /\ status.again # dom
           /\ files' = res.files
           /\ status' = [status EXCEPT ![dom] = res.outcome, !.again = dom]
    /\ UNCHANGED <<pc, source, csv_files, vitals_map, labs_map, output_dir, native,
                   id_map, df_long, rvars, cvars, bvars>>

\* one run of the program on a fresh output directory
Next ==
    \/ main \/ OpenCLIFETL_init \/ run
    \/ etl_eicu_vitals(MaxRows) \/ etl_eicu_labs(MaxRows)
    \/ etl_sic_vitals(MaxRows) \/ etl_sic_labs(MaxRows)
    \/ etl_hirid_vitals(MaxRows) \/ etl_hirid_labs
    \/ etl_aumc_vitals(MaxRows) \/ etl_aumc_labs

Spec == Init /\ [][Next]_vars

\* repeated runs of the program on the same output directory
NextReruns ==
    \/ main \/ OpenCLIFETL_init \/ run
    \/ etl_eicu_vitals(MaxRerunRows) \/ etl_eicu_labs(MaxRerunRows)
    \/ etl_sic_vitals(MaxRerunRows) \/ etl_sic_labs(MaxRerunRows)
    \/ etl_hirid_vitals(MaxRerunRows) \/ etl_hirid_labs
    \/ etl_aumc_vitals(MaxRerunRows) \/ etl_aumc_labs
    \/ invoke_again

SpecReruns == Init /\ [][NextReruns]_vars

\* repeated runs in which an adapter may be executed twice in a row
NextTwice ==
    \/ main \/ OpenCLIFETL_init \/ run
    \/ etl_eicu_vitals(MaxRerunRows) \/ etl_eicu_labs(MaxRerunRows)
    \/ etl_sic_vitals(MaxRerunRows) \/ etl_sic_labs(MaxRerunRows)
    \/ etl_hirid_vitals(MaxRerunRows) \/ etl_hirid_labs
    \/ etl_aumc_vitals(MaxRerunRows) \/ etl_aumc_labs
    \/ invoke_again \/ adapter_again

SpecTwice == Init /\ [][NextTwice]_vars

\* the native tables the adapter of domain dom of dataset src may find; the labs
\* adapters of hirid and aumc read no table
TablesFor(src, dom, n) ==
    CASE src = "eicu" /\ dom = "vitals" -> {NoTable} \cup EicuVitalTables(n)
      [] src = "eicu" /\ dom = "labs" ->
            {NoTable, LabTableNoResult} \cup EicuLabTables(n)
      [] src = "sic" /\ dom = "vitals" -> {NoTable} \cup IdKeyedTables(SicVitalsCfg, n)
      [] src = "sic" /\ dom = "labs" -> {NoTable} \cup IdKeyedTables(SicLabsCfg, n)
      [] src = "hirid" /\ dom = "vitals" ->
            {ObsAbsent, ObsRegularFile, ObsEmptyDir} \cup HiridTables(n)
      [] src = "aumc" /\ dom = "vitals" -> {NoTable} \cup IdKeyedTables(AumcCfg, n)
      [] OTHER -> {NoTable}

\* a worker's adapter up to its write: the exists() check and the read
worker_read(dom, n) ==
    /\ pc = "vitals"
    /\ cpc[dom] = "idle"
    /\ \E tbl \in TablesFor(source, dom, n) :
          ctables' = [ctables EXCEPT ![dom] = tbl]
    /\ cpc' = [cpc EXCEPT ![dom] = "read"]
    /\ clog' = Append(clog, <<dom, "read">>)
    /\ UNCHANGED <<pvars, rvars, bvars>>

\* the rest of the worker's adapter: lookup, transformation and write; an
\* exception leaves the adapter and run(), which ends the program
worker_write(dom) ==
    /\ pc = "vitals"
    /\ cpc[dom] = "read"
    /\ LET res == RunAdapter(source, dom, ctables[dom], vitals_map, labs_map, files)
       IN  /\ files' = res.files
           /\ status' = [status EXCEPT ![dom] = res.outcome]
           /\ pc' = IF res.outcome \in Exceptions THEN res.outcome ELSE pc
    /\ cpc' = [cpc EXCEPT ![dom] = "done"]
    /\ clog' = Append(clog, <<dom, "write">>)
    /\ UNCHANGED <<source, csv_files, vitals_map, labs_map, output_dir, native,
                   id_map, df_long, ctables, rvars, bvars>>

\* both workers have returned
workers_join ==
    /\ pc = "vitals"
    /\ \A d \in {"vitals", "labs"} : cpc[d] = "done"
    /\ pc' = "complete"
    /\ UNCHANGED <<source, csv_files, vitals_map, labs_map, output_dir, files, native,
                   id_map, df_long, status, rvars, cvars, bvars>>

\* one run in which the two adapters of the dataset run as independent workers
NextAnyOrder ==
    \/ main \/ OpenCLIFETL_init \/ run
    \/ worker_read("vitals", MaxRerunRows) \/ worker_read("labs", MaxRerunRows)
    \/ worker_write("vitals") \/ worker_write("labs")
    \/ workers_join

SpecAnyOrder == Init /\ [][NextAnyOrder]_vars

\* mapping tables drawn for one numeric source; the program is not started
InitResolve ==
    /\ \E ds \in NumericSources :
       \E nv \in 0..MaxEntries : \E nl \in 0..(MaxEntries - nv) :
       \E cells \in IdCells(nv + nl, MaxChars) :
          /\ rSource = ds
          /\ rVitals = [i \in 1..nv |-> VitalsRow(i, get_source_column(ds), cells[i])]
          /\ rLabs = [j \in 1..nl |-> LabsRow(j, get_source_column(ds), cells[nv + j])]
    /\ rWho = "none"
    /\ rLookup = EmptyDict
    /\ pc = "main"
    /\ source = rSource
    /\ csv_files = <<>>
    /\ vitals_map = <<>>
    /\ labs_map = <<>>
    /\ output_dir = FALSE
    /\ files = [d \in {"vitals", "labs"} |-> Absent]
    /\ native = NoTable
    /\ id_map = EmptyDict
    /\ df_long = <<>>
    /\ status = NoStatus
    /\ cpc = [d \in {"vitals", "labs"} |-> "idle"]
    /\ ctables = [d \in {"vitals", "labs"} |-> NoTable]
    /\ clog = <<>>
    /\ concept_dict = EmptyDict
    /\ mapping_files = NoMappingFiles

\* __init__ reads both mapping files before any adapter runs
LoadRaises == ReadCsvRaises(rVitals) \/ ReadCsvRaises(rLabs)

\* the program up to the end of the resolver loop of an adapter, on the drawn
\* mapping files
RSicVitals ==
    /\ rSource = "sic"
    /\ rWho = "none"
    /\ LET st == sic_vitals_id_map(rVitals)
       IN  IF LoadRaises
           THEN rWho' = "ComputeError" /\ rLookup' = EmptyDict
           ELSE /\ rWho' = IF st.err THEN "ValueError" ELSE "sic_vitals"
                /\ rLookup' = st.id_map
    /\ UNCHANGED <<rSource, rVitals, rLabs, pvars, cvars, bvars>>

RSicLabs ==
    /\ rSource = "sic"
    /\ rWho = "none"
    /\ LET st == sic_labs_id_map(rLabs)
       IN  IF LoadRaises
           THEN rWho' = "ComputeError" /\ rLookup' = EmptyDict
           ELSE /\ rWho' = IF st.err THEN "ValueError" ELSE "sic_labs"
                /\ rLookup' = st.id_map
    /\ UNCHANGED <<rSource, rVitals, rLabs, pvars, cvars, bvars>>

RHirid ==
    /\ rSource = "hirid"
    /\ rWho = "none"
    /\ LET st == hirid_id_map(rVitals, rLabs)
       IN  IF LoadRaises
           THEN rWho' = "ComputeError" /\ rLookup' = EmptyDict
           ELSE /\ rWho' = IF st.err THEN "ValueError" ELSE "hirid"
                /\ rLookup' = st.id_map
    /\ UNCHANGED <<rSource, rVitals, rLabs, pvars, cvars, bvars>>

RAumc ==
    /\ rSource = "aumc"
    /\ rWho = "none"
    /\ LET st == aumc_id_map(rVitals, rLabs)
       IN  IF LoadRaises
           THEN rWho' = "ComputeError" /\ rLookup' = EmptyDict
           ELSE /\ rWho' = IF st.err THEN "ValueError" ELSE "aumc"
                /\ rLookup' = st.id_map
    /\ UNCHANGED <<rSource, rVitals, rLabs, pvars, cvars, bvars>>


RNext == RSicVitals \/ RSicLabs \/ RHirid \/ RAumc

SpecResolve == InitResolve /\ [][RNext]_vars

(* ------------------------------------------------------------------------ *)
(* The mapping builder: scripts/build_openclif.py                           *)
(* ------------------------------------------------------------------------ *)
\* number of items in one source entry of a drawn ricu concept
MaxItems == 2

glucose_serum == <<"g","l","u","c","o","s","e","_","s","e","r","u","m">>
glucose_fingerstick ==
    <<"g","l","u","c","o","s","e","_","f","i","n","g","e","r","s","t","i","c","k">>
hemoglobin == <<"h","e","m","o","g","l","o","b","i","n">>

\* the items of CLIF_TO_RICU_MAPPINGS in their order, the category names as
\* texts; "None" is None
MappingItems ==
    << <<<<"t","e","m","p","_","c">>, "temp">>,
       <<<<"h","e","a","r","t","_","r","a","t","e">>, "hr">>,
       <<<<"s","b","p">>, "sbp">>,
       <<<<"d","b","p">>, "dbp">>,
       <<<<"s","p","o","2">>, "spo2">>,
       <<<<"r","e","s","p","i","r","a","t","o","r","y","_","r","a","t","e">>, "resp">>,
       <<<<"m","a","p">>, "map">>,
       <<<<"h","e","i","g","h","t","_","c","m">>, "height">>,
       <<<<"w","e","i","g","h","t","_","k","g">>, "weight">>,
       <<<<"a","l","b","u","m","i","n">>, "alb">>,
       <<<<"a","l","k","a","l","i","n","e","_","p","h","o","s","p","h","a","t","a","s","e">>, "alp">>,
       <<<<"a","l","t">>, "alt">>,
       <<<<"a","s","t">>, "ast">>,
       <<<<"b","i","c","a","r","b","o","n","a","t","e">>, "bicar">>,
       <<<<"b","i","l","i","r","u","b","i","n","_","t","o","t","a","l">>, "bili">>,
       <<<<"b","i","l","i","r","u","b","i","n","_","c","o","n","j","u","g","a","t","e","d">>, "bili_dir">>,
       <<<<"b","u","n">>, "bun">>,
       <<<<"c","a","l","c","i","u","m","_","t","o","t","a","l">>, "ca">>,
       <<<<"c","a","l","c","i","u","m","_","i","o","n","i","z","e","d">>, "cai">>,
       <<<<"c","h","l","o","r","i","d","e">>, "cl">>,
       <<<<"c","r","e","a","t","i","n","i","n","e">>, "crea">>,
       <<<<"c","r","p">>, "crp">>,
       <<<<"g","l","u","c","o","s","e","_","s","e","r","u","m">>, "glu">>,
       <<<<"g","l","u","c","o","s","e","_","f","i","n","g","e","r","s","t","i","c","k">>, "glu">>,
       <<<<"m","a","g","n","e","s","i","u","m">>, "mg">>,
       <<<<"p","h","o","s","p","h","a","t","e">>, "phos">>,
       <<<<"p","o","t","a","s","s","i","u","m">>, "k">>,
       <<<<"s","o","d","i","u","m">>, "na">>,
       <<<<"l","a","c","t","a","t","e">>, "lact">>,
       <<<<"h","e","m","o","g","l","o","b","i","n">>, "hgb">>,
       <<<<"p","l","a","t","e","l","e","t","_","c","o","u","n","t">>, "plt">>,
       <<<<"w","b","c">>, "wbc">>,
       <<<<"n","e","u","t","r","o","p","h","i","l","s","_","p","e","r","c","e","n","t">>, "neut">>,
       <<<<"l","y","m","p","h","o","c","y","t","e","s","_","p","e","r","c","e","n","t">>, "lymph">>,
       <<<<"e","o","s","i","n","o","p","h","i","l","s","_","p","e","r","c","e","n","t">>, "eos">>,
       <<<<"b","a","s","o","p","h","i","l","s","_","p","e","r","c","e","n","t">>, "basos">>,
       <<<<"i","n","r">>, "inr_pt">>,
       <<<<"p","t">>, "pt">>,
       <<<<"p","t","t">>, "ptt">>,
       <<<<"t","r","o","p","o","n","i","n","_","i">>, "tri">>,
       <<<<"t","r","o","p","o","n","i","n","_","t">>, "tnt">>,
       <<<<"f","e","r","r","i","t","i","n">>, "None">>,
       <<<<"l","d","h">>, "None">>,
       <<<<"e","s","r">>, "esr">>,
       <<<<"p","c","o","2","_","a","r","t","e","r","i","a","l">>, "pco2">>,
       <<<<"p","o","2","_","a","r","t","e","r","i","a","l">>, "po2">>,
       <<<<"p","h","_","a","r","t","e","r","i","a","l">>, "ph">>,
       <<<<"s","o","2","_","a","r","t","e","r","i","a","l">>, "sao2">>,
       <<<<"n","o","r","e","p","i","n","e","p","h","r","i","n","e">>, "norepi_rate">>,
       <<<<"e","p","i","n","e","p","h","r","i","n","e">>, "epi_rate">>,
       <<<<"v","a","s","o","p","r","e","s","s","i","n">>, "adh_rate">>,
       <<<<"d","o","p","a","m","i","n","e">>, "dopa_rate">>,
       <<<<"d","o","b","u","t","a","m","i","n","e">>, "dobu_rate">>,
       <<<<"p","h","e","n","y","l","e","p","h","r","i","n","e">>, "phn_rate">>,
       <<<<"i","n","s","u","l","i","n">>, "ins">>,
       <<<<"m","i","l","r","i","n","o","n","e">>, "None">>,
       <<<<"d","e","x","m","e","d","e","t","o","m","i","d","i","n","e">>, "None">>,
       <<<<"p","r","o","p","o","f","o","l">>, "None">>,
       <<<<"m","i","d","a","z","o","l","a","m">>, "None">>,
       <<<<"f","e","n","t","a","n","y","l">>, "None">>,
       <<<<"h","e","p","a","r","i","n">>, "None">> >>

CLIF_TO_RICU_MAPPINGS ==
    [c \in {p[1] : p \in Range(MappingItems)} |->
        (CHOOSE p \in Range(MappingItems) : p[1] = c)[2]]

\* rows of the embedded category tables, in file order (category column only)
VITALS_CSV ==
    << [vital_category |-> <<"t","e","m","p","_","c">>],
       [vital_category |-> <<"h","e","a","r","t","_","r","a","t","e">>],
       [vital_category |-> <<"s","b","p">>],
       [vital_category |-> <<"d","b","p">>],
       [vital_category |-> <<"s","p","o","2">>],
       [vital_category |-> <<"r","e","s","p","i","r","a","t","o","r","y","_","r","a","t","e">>],
       [vital_category |-> <<"m","a","p">>],
       [vital_category |-> <<"h","e","i","g","h","t","_","c","m">>],
       [vital_category |-> <<"w","e","i","g","h","t","_","k","g">>] >>

\* the labs category table with the two glucose rows in the other order
LABS_CSV_serum_first ==
    << [lab_category |-> <<"a","l","b","u","m","i","n">>],
       [lab_category |-> <<"a","l","k","a","l","i","n","e","_","p","h","o","s","p","h","a","t","a","s","e">>],
       [lab_category |-> <<"a","l","t">>],
       [lab_category |-> <<"a","s","t">>],
       [lab_category |-> <<"b","a","s","o","p","h","i","l","s","_","p","e","r","c","e","n","t">>],
       [lab_category |-> <<"b","a","s","o","p","h","i","l","s","_","a","b","s","o","l","u","t","e">>],
       [lab_category |-> <<"b","i","c","a","r","b","o","n","a","t","e">>],
       [lab_category |-> <<"b","i","l","i","r","u","b","i","n","_","t","o","t","a","l">>],
       [lab_category |-> <<"b","i","l","i","r","u","b","i","n","_","c","o","n","j","u","g","a","t","e","d">>],
       [lab_category |-> <<"b","i","l","i","r","u","b","i","n","_","u","n","c","o","n","j","u","g","a","t","e","d">>],
       [lab_category |-> <<"b","u","n">>],
       [lab_category |-> <<"c","a","l","c","i","u","m","_","t","o","t","a","l">>],
       [lab_category |-> <<"c","a","l","c","i","u","m","_","i","o","n","i","z","e","d">>],
       [lab_category |-> <<"c","h","l","o","r","i","d","e">>],
       [lab_category |-> <<"c","r","e","a","t","i","n","i","n","e">>],
       [lab_category |-> <<"c","r","p">>],
       [lab_category |-> <<"e","o","s","i","n","o","p","h","i","l","s","_","p","e","r","c","e","n","t">>],
       [lab_category |-> <<"e","o","s","i","n","o","p","h","i","l","s","_","a","b","s","o","l","u","t","e">>],
       [lab_category |-> <<"e","s","r">>],
       [lab_category |-> <<"f","e","r","r","i","t","i","n">>],
       [lab_category |-> <<"g","l","u","c","o","s","e","_","s","e","r","u","m">>],
       [lab_category |-> <<"g","l","u","c","o","s","e","_","f","i","n","g","e","r","s","t","i","c","k">>],
       [lab_category |-> <<"h","e","m","o","g","l","o","b","i","n">>],
       [lab_category |-> <<"p","h","o","s","p","h","a","t","e">>],
       [lab_category |-> <<"i","n","r">>],
       [lab_category |-> <<"l","a","c","t","a","t","e">>],
       [lab_category |-> <<"l","d","h">>],
       [lab_category |-> <<"l","y","m","p","h","o","c","y","t","e","s","_","p","e","r","c","e","n","t">>],
       [lab_category |-> <<"l","y","m","p","h","o","c","y","t","e","s","_","a","b","s","o","l","u","t","e">>],
       [lab_category |-> <<"m","a","g","n","e","s","i","u","m">>],
       [lab_category |-> <<"m","o","n","o","c","y","t","e","s","_","p","e","r","c","e","n","t">>],
       [lab_category |-> <<"m","o","n","o","c","y","t","e","s","_","a","b","s","o","l","u","t","e">>],
       [lab_category |-> <<"n","e","u","t","r","o","p","h","i","l","s","_","p","e","r","c","e","n","t">>],
       [lab_category |-> <<"n","e","u","t","r","o","p","h","i","l","s","_","a","b","s","o","l","u","t","e">>],
       [lab_category |-> <<"p","c","o","2","_","a","r","t","e","r","i","a","l">>],
       [lab_category |-> <<"p","o","2","_","a","r","t","e","r","i","a","l">>],
       [lab_category |-> <<"p","c","o","2","_","v","e","n","o","u","s">>],
       [lab_category |-> <<"p","h","_","a","r","t","e","r","i","a","l">>],
       [lab_category |-> <<"p","h","_","v","e","n","o","u","s">>],
       [lab_category |-> <<"p","l","a","t","e","l","e","t","_","c","o","u","n","t">>],
       [lab_category |-> <<"p","o","t","a","s","s","i","u","m">>],
       [lab_category |-> <<"p","r","o","c","a","l","c","i","t","o","n","i","n">>],
       [lab_category |-> <<"p","t">>],
       [lab_category |-> <<"p","t","t">>],
       [lab_category |-> <<"s","o","2","_","a","r","t","e","r","i","a","l">>],
       [lab_category |-> <<"s","o","2","_","m","i","x","e","d","_","v","e","n","o","u","s">>],
       [lab_category |-> <<"s","o","2","_","c","e","n","t","r","a","l","_","v","e","n","o","u","s">>],
       [lab_category |-> <<"s","o","d","i","u","m">>],
       [lab_category |-> <<"t","o","t","a","l","_","p","r","o","t","e","i","n">>],
       [lab_category |-> <<"t","r","o","p","o","n","i","n","_","i">>],
       [lab_category |-> <<"t","r","o","p","o","n","i","n","_","t">>],
       [lab_category |-> <<"w","b","c">>] >>

\* LABS_CSV, in file order
LABS_CSV ==
    << [lab_category |-> <<"a","l","b","u","m","i","n">>],
       [lab_category |-> <<"a","l","k","a","l","i","n","e","_","p","h","o","s","p","h","a","t","a","s","e">>],
       [lab_category |-> <<"a","l","t">>],
       [lab_category |-> <<"a","s","t">>],
       [lab_category |-> <<"b","a","s","o","p","h","i","l","s","_","p","e","r","c","e","n","t">>],
       [lab_category |-> <<"b","a","s","o","p","h","i","l","s","_","a","b","s","o","l","u","t","e">>],
       [lab_category |-> <<"b","i","c","a","r","b","o","n","a","t","e">>],
       [lab_category |-> <<"b","i","l","i","r","u","b","i","n","_","t","o","t","a","l">>],
       [lab_category |-> <<"b","i","l","i","r","u","b","i","n","_","c","o","n","j","u","g","a","t","e","d">>],
       [lab_category |-> <<"b","i","l","i","r","u","b","i","n","_","u","n","c","o","n","j","u","g","a","t","e","d">>],
       [lab_category |-> <<"b","u","n">>],
       [lab_category |-> <<"c","a","l","c","i","u","m","_","t","o","t","a","l">>],
       [lab_category |-> <<"c","a","l","c","i","u","m","_","i","o","n","i","z","e","d">>],
       [lab_category |-> <<"c","h","l","o","r","i","d","e">>],
       [lab_category |-> <<"c","r","e","a","t","i","n","i","n","e">>],
       [lab_category |-> <<"c","r","p">>],
       [lab_category |-> <<"e","o","s","i","n","o","p","h","i","l","s","_","p","e","r","c","e","n","t">>],
       [lab_category |-> <<"e","o","s","i","n","o","p","h","i","l","s","_","a","b","s","o","l","u","t","e">>],
       [lab_category |-> <<"e","s","r">>],
       [lab_category |-> <<"f","e","r","r","i","t","i","n">>],
       [lab_category |-> <<"g","l","u","c","o","s","e","_","f","i","n","g","e","r","s","t","i","c","k">>],
       [lab_category |-> <<"g","l","u","c","o","s","e","_","s","e","r","u","m">>],
       [lab_category |-> <<"h","e","m","o","g","l","o","b","i","n">>],
       [lab_category |-> <<"p","h","o","s","p","h","a","t","e">>],
       [lab_category |-> <<"i","n","r">>],
       [lab_category |-> <<"l","a","c","t","a","t","e">>],
       [lab_category |-> <<"l","d","h">>],
       [lab_category |-> <<"l","y","m","p","h","o","c","y","t","e","s","_","p","e","r","c","e","n","t">>],
       [lab_category |-> <<"l","y","m","p","h","o","c","y","t","e","s","_","a","b","s","o","l","u","t","e">>],
       [lab_category |-> <<"m","a","g","n","e","s","i","u","m">>],
       [lab_category |-> <<"m","o","n","o","c","y","t","e","s","_","p","e","r","c","e","n","t">>],
       [lab_category |-> <<"m","o","n","o","c","y","t","e","s","_","a","b","s","o","l","u","t","e">>],
       [lab_category |-> <<"n","e","u","t","r","o","p","h","i","l","s","_","p","e","r","c","e","n","t">>],
       [lab_category |-> <<"n","e","u","t","r","o","p","h","i","l","s","_","a","b","s","o","l","u","t","e">>],
       [lab_category |-> <<"p","c","o","2","_","a","r","t","e","r","i","a","l">>],
       [lab_category |-> <<"p","o","2","_","a","r","t","e","r","i","a","l">>],
       [lab_category |-> <<"p","c","o","2","_","v","e","n","o","u","s">>],
       [lab_category |-> <<"p","h","_","a","r","t","e","r","i","a","l">>],
       [lab_category |-> <<"p","h","_","v","e","n","o","u","s">>],
       [lab_category |-> <<"p","l","a","t","e","l","e","t","_","c","o","u","n","t">>],
       [lab_category |-> <<"p","o","t","a","s","s","i","u","m">>],
       [lab_category |-> <<"p","r","o","c","a","l","c","i","t","o","n","i","n">>],
       [lab_category |-> <<"p","t">>],
       [lab_category |-> <<"p","t","t">>],
       [lab_category |-> <<"s","o","2","_","a","r","t","e","r","i","a","l">>],
       [lab_category |-> <<"s","o","2","_","m","i","x","e","d","_","v","e","n","o","u","s">>],
       [lab_category |-> <<"s","o","2","_","c","e","n","t","r","a","l","_","v","e","n","o","u","s">>],
       [lab_category |-> <<"s","o","d","i","u","m">>],
       [lab_category |-> <<"t","o","t","a","l","_","p","r","o","t","e","i","n">>],
       [lab_category |-> <<"t","r","o","p","o","n","i","n","_","i">>],
       [lab_category |-> <<"t","r","o","p","o","n","i","n","_","t">>],
       [lab_category |-> <<"w","b","c">>] >>

\* MEDICATIONS_CSV, in file order
MEDICATIONS_CSV ==
    << [med_category |-> <<"n","o","r","e","p","i","n","e","p","h","r","i","n","e">>],
       [med_category |-> <<"e","p","i","n","e","p","h","r","i","n","e">>],
       [med_category |-> <<"v","a","s","o","p","r","e","s","s","i","n">>],
       [med_category |-> <<"d","o","p","a","m","i","n","e">>],
       [med_category |-> <<"d","o","b","u","t","a","m","i","n","e">>],
       [med_category |-> <<"p","h","e","n","y","l","e","p","h","r","i","n","e">>],
       [med_category |-> <<"m","i","l","r","i","n","o","n","e">>],
       [med_category |-> <<"i","n","s","u","l","i","n">>],
       [med_category |-> <<"p","r","o","p","o","f","o","l">>],
       [med_category |-> <<"d","e","x","m","e","d","e","t","o","m","i","d","i","n","e">>],
       [med_category |-> <<"m","i","d","a","z","o","l","a","m">>],
       [med_category |-> <<"f","e","n","t","a","n","y","l">>],
       [med_category |-> <<"h","e","p","a","r","i","n">>] >>

\* RESPIRATORY_CSV, in file order
RESPIRATORY_CSV ==
    << [device_category |-> <<"I","M","V">>],
       [device_category |-> <<"N","I","P","P","V">>],
       [device_category |-> <<"C","P","A","P">>],
       [device_category |-> <<"H","i","g","h"," ","F","l","o","w"," ","N","C">>],
       [device_category |-> <<"F","a","c","e"," ","M","a","s","k">>],
       [device_category |-> <<"T","r","a","c","h"," ","C","o","l","l","a","r">>],
       [device_category |-> <<"N","a","s","a","l"," ","C","a","n","n","u","l","a">>],
       [device_category |-> <<"R","o","o","m"," ","A","i","r">>],
       [device_category |-> <<"O","t","h","e","r">>] >>

\* extra_columns of main()
extra_columns ==
    <<"ricu_concept", "mimic_iii_itemid", "mimic_iv_itemid", "eicu_ids", "hirid_ids",
      "aumc_ids">>

\* items of a ricu source entry: {'ids': n}, {'ids': [n, m]}, {'regex': ...}
\* or {'val_var': ...}
IdsItem(ids) == [ids |-> ids]
RegexItem == [regex |-> <<"g">>]
ValVarItem == [val_var |-> <<"v">>]
ItemPool ==
    {IdsItem(<< <<"0">> >>), IdsItem(<< <<"1">> >>), IdsItem(<< <<"2">>, <<"1">> >>),
     RegexItem, ValVarItem}
SourceEntries(n) == UNION {[1..k -> ItemPool] : k \in 0..n}

\* "; ".join(ids)
RECURSIVE Join(_)
Join(ids) ==
    IF ids = <<>> THEN <<>>
    ELSE IF Len(ids) = 1 THEN Head(ids)
    ELSE Head(ids) \o <<";", " ">> \o Join(Tail(ids))

\* the ids list extract_ids_from_source collects from the items of an entry
RECURSIVE CollectIds(_)
CollectIds(entry) ==
    IF entry = <<>> THEN <<>>
    ELSE LET item == Head(entry)
         IN  (IF "ids" \in DOMAIN item THEN item.ids
              ELSE IF "regex" \in DOMAIN item
              THEN << <<"r","e","g","e","x",":">> \o item.regex >>
              ELSE IF "val_var" \in DOMAIN item
              THEN << <<"c","o","l",":">> \o item.val_var >>
              ELSE <<>>)
             \o CollectIds(Tail(entry))

extract_ids_from_source(source_entry) == Join(CollectIds(source_entry))

\* parse_ricu_concepts: concepts without 'sources' are skipped
parse_ricu_concepts(dict) ==
    [name \in {n \in DOMAIN dict : "sources" \in DOMAIN dict[n]} |->
        LET sources == dict[name].sources
            ids(key) == IF key \in DOMAIN sources
                        THEN extract_ids_from_source(sources[key]) ELSE <<>>
        IN  [mimic_iii_itemid |-> ids("mimic"), mimic_iv_itemid |-> ids("miiv"),
             eicu_ids |-> ids("eicu"), hirid_ids |-> ids("hirid"),
             aumc_ids |-> ids("aumc")]]

\* a dict row with key k set to v
RowSet(row, k, v) == [c \in (DOMAIN row) \cup {k} |-> IF c = k THEN v ELSE row[c]]

\* the text of a concept name in the ricu_concept column
ConceptText(name) ==
    CASE name = "temp" -> <<"t","e","m","p">>
      [] name = "hr" -> <<"h","r">>
      [] name = "sbp" -> <<"s","b","p">>
      [] name = "dbp" -> <<"d","b","p">>
      [] name = "spo2" -> <<"s","p","o","2">>
      [] name = "resp" -> <<"r","e","s","p">>
      [] name = "map" -> <<"m","a","p">>
      [] name = "height" -> <<"h","e","i","g","h","t">>
      [] name = "weight" -> <<"w","e","i","g","h","t">>
      [] name = "alb" -> <<"a","l","b">>
      [] name = "alp" -> <<"a","l","p">>
      [] name = "alt" -> <<"a","l","t">>
      [] name = "ast" -> <<"a","s","t">>
      [] name = "bicar" -> <<"b","i","c","a","r">>
      [] name = "bili" -> <<"b","i","l","i">>
      [] name = "bili_dir" -> <<"b","i","l","i","_","d","i","r">>
      [] name = "bun" -> <<"b","u","n">>
      [] name = "ca" -> <<"c","a">>
      [] name = "cai" -> <<"c","a","i">>
      [] name = "cl" -> <<"c","l">>
      [] name = "crea" -> <<"c","r","e","a">>
      [] name = "crp" -> <<"c","r","p">>
      [] name = "glu" -> <<"g","l","u">>
      [] name = "mg" -> <<"m","g">>
      [] name = "phos" -> <<"p","h","o","s">>
      [] name = "k" -> <<"k">>
      [] name = "na" -> <<"n","a">>
      [] name = "lact" -> <<"l","a","c","t">>
      [] name = "hgb" -> <<"h","g","b">>
      [] name = "plt" -> <<"p","l","t">>
      [] name = "wbc" -> <<"w","b","c">>
      [] name = "neut" -> <<"n","e","u","t">>
      [] name = "lymph" -> <<"l","y","m","p","h">>
      [] name = "eos" -> <<"e","o","s">>
      [] name = "basos" -> <<"b","a","s","o","s">>
      [] name = "inr_pt" -> <<"i","n","r","_","p","t">>
      [] name = "pt" -> <<"p","t">>
      [] name = "ptt" -> <<"p","t","t">>
      [] name = "tri" -> <<"t","r","i">>
      [] name = "tnt" -> <<"t","n","t">>
      [] name = "esr" -> <<"e","s","r">>
      [] name = "pco2" -> <<"p","c","o","2">>
      [] name = "po2" -> <<"p","o","2">>
      [] name = "ph" -> <<"p","h">>
      [] name = "sao2" -> <<"s","a","o","2">>
      [] name = "norepi_rate" -> <<"n","o","r","e","p","i","_","r","a","t","e">>
      [] name = "epi_rate" -> <<"e","p","i","_","r","a","t","e">>
      [] name = "adh_rate" -> <<"a","d","h","_","r","a","t","e">>
      [] name = "dopa_rate" -> <<"d","o","p","a","_","r","a","t","e">>
      [] name = "dobu_rate" -> <<"d","o","b","u","_","r","a","t","e">>
      [] name = "phn_rate" -> <<"p","h","n","_","r","a","t","e">>
      [] name = "ins" -> <<"i","n","s">>
      [] OTHER -> <<>>

IdColumns == <<"mimic_iii_itemid", "mimic_iv_itemid", "eicu_ids", "hirid_ids", "aumc_ids">>

RECURSIVE SetColumns(_, _, _)
SetColumns(row, cols, val) ==
    IF cols = <<>> THEN row
    ELSE SetColumns(RowSet(row, Head(cols), val[Head(cols)]), Tail(cols), val)

\* enhance_csv_with_mappings
enhance_csv_with_mappings(input_rows, category_column, ricu_mappings, clif_to_ricu) ==
    [i \in DOMAIN input_rows |->
        LET row == input_rows[i]
            category == strip(lower(RowGet(row, category_column)))
            ricu_concept == IF category \in DOMAIN clif_to_ricu
                            THEN clif_to_ricu[category] ELSE "None"
            named == RowSet(row, "ricu_concept",
                            IF ricu_concept # "None" THEN ConceptText(ricu_concept)
                            ELSE <<>>)
        IN  IF ricu_concept # "None" /\ ricu_concept \in DOMAIN ricu_mappings
            THEN SetColumns(named, IdColumns, ricu_mappings[ricu_concept])
            ELSE SetColumns(named, IdColumns, [c \in Range(IdColumns) |-> <<>>])]

\* the columns of rows[0] in insertion order: the category column, then what
\* enhance_csv_with_mappings added
RowKeys(category_column) == <<category_column, "ricu_concept">> \o IdColumns

\* write_enhanced_csv: no file for no rows; header = existing columns + extra
write_enhanced_csv(rows, category_column, extra) ==
    IF rows = <<>> THEN [exists |-> FALSE, cols |-> <<>>, rows |-> <<>>]
    ELSE LET notextra(c) == c \notin Range(extra)
             fieldnames == SelectSeq(RowKeys(category_column), notextra) \o extra
         IN  [exists |-> TRUE, cols |-> fieldnames, rows |-> rows]

\* the respiratory rows get the six columns set to ''
RespRows ==
    [i \in DOMAIN RESPIRATORY_CSV |->
        SetColumns(RowSet(RESPIRATORY_CSV[i], "ricu_concept", <<>>), IdColumns,
                   [c \in Range(IdColumns) |-> <<>>])]

\* main() of the builder
BuiltFiles(dict) ==
    LET ricu_mappings == parse_ricu_concepts(dict)
    IN  [t \in {"vitals", "labs", "medications", "respiratory_support"} |->
            CASE t = "vitals" ->
                   write_enhanced_csv(
                       enhance_csv_with_mappings(VITALS_CSV, "vital_category",
                           ricu_mappings, CLIF_TO_RICU_MAPPINGS),
                       "vital_category", extra_columns)
              [] t = "labs" ->
                   write_enhanced_csv(
                       enhance_csv_with_mappings(LABS_CSV, "lab_category",
                           ricu_mappings, CLIF_TO_RICU_MAPPINGS),
                       "lab_category", extra_columns)
              [] t = "medications" ->
                   write_enhanced_csv(
                       enhance_csv_with_mappings(MEDICATIONS_CSV, "med_category",
                           ricu_mappings, CLIF_TO_RICU_MAPPINGS),
                       "med_category", extra_columns)
              [] t = "respiratory_support" ->
                   write_enhanced_csv(RespRows, "device_category", extra_columns)]

\* concepts of the drawn dictionaries that are the same in every draw: temp has
\* no sources, hr and alb have fixed ones
FixedConcepts(name) ==
    CASE name = "temp" -> [description |-> <<>>]
      [] name = "hr" -> [sources |-> [hirid |-> <<IdsItem(<< <<"1">> >>)>>,
                                      aumc |-> <<IdsItem(<< <<"1">> >>)>>]]
      [] name = "alb" -> [sources |-> [eicu |-> <<IdsItem(<< <<"A","l","b">> >>)>>,
                                       hirid |-> <<IdsItem(<< <<"2">> >>)>>]]

\* a concept dictionary is drawn: the glu concept has a hirid and an aumc entry
\* of the same items, at most MaxItems, and possibly an eicu entry; the hgb
\* concept, bound to hemoglobin, the row after the glucose rows, has a hirid and
\* an aumc entry of the same items, at most one; the other concepts the
\* categories are bound to are not in the dictionary
InitBuild ==
    /\ \E h \in SourceEntries(MaxItems) : \E g \in SourceEntries(1) :
       \E e \in BOOLEAN :
          concept_dict =
             [name \in {"temp", "hr", "alb", "glu", "hgb"} |->
                 CASE name = "glu" ->
                        [sources |->
                           [k \in {"hirid", "aumc"} \cup (IF e THEN {"eicu"} ELSE {}) |->
                               CASE k = "hirid" -> h [] k = "aumc" -> h
                                 [] k = "eicu" -> <<RegexItem>>]]
                   [] name = "hgb" -> [sources |-> [hirid |-> g, aumc |-> g]]
                   [] OTHER -> FixedConcepts(name)]
    /\ mapping_files = NoMappingFiles
    /\ rSource \in NumericSources
    /\ rVitals = <<>>
    /\ rLabs = <<>>
    /\ rWho = "unbuilt"
    /\ rLookup = EmptyDict
    /\ pc = "main"
    /\ source = rSource
    /\ csv_files = <<>>
    /\ vitals_map = <<>>
    /\ labs_map = <<>>
    /\ output_dir = FALSE
    /\ files = [d \in {"vitals", "labs"} |-> Absent]
    /\ native = NoTable
    /\ id_map = EmptyDict
    /\ df_long = <<>>
    /\ status = NoStatus
    /\ cpc = [d \in {"vitals", "labs"} |-> "idle"]
    /\ ctables = [d \in {"vitals", "labs"} |-> NoTable]
    /\ clog = <<>>

\* the builder is run
build_openclif ==
    /\ rWho = "unbuilt"
    /\ mapping_files' = BuiltFiles(concept_dict)
    /\ rWho' = "built"
    /\ UNCHANGED <<concept_dict, rSource, rVitals, rLabs, rLookup, pvars, cvars>>

\* load_mappings("vitals") and load_mappings("labs") read the built files
load_built ==
    /\ rWho = "built"
    /\ rVitals' = mapping_files["vitals"].rows
    /\ rLabs' = mapping_files["labs"].rows
    /\ rWho' = "none"
    /\ UNCHANGED <<rSource, rLookup, pvars, cvars, bvars>>

\* the builder, then the resolvers on the files it wrote
NextBuild ==
    \/ build_openclif \/ load_built
    \/ RSicVitals \/ RSicLabs \/ RHirid \/ RAumc

SpecBuild == InitBuild /\ [][NextBuild]_vars

(* ======================================================================== *)
(* Properties                                                               *)
(* ======================================================================== *)
\* the elements of a ';'-delimited list: its maximal ';'-free segments
ListElements(s) ==
    { SubSeq(s, p[1], p[2]) :
        p \in { q \in (1..(Len(s) + 1)) \X (0..Len(s)) :
                  /\ q[2] >= q[1] - 1
                  /\ q[1] = 1 \/ s[q[1] - 1] = ";"
                  /\ q[2] = Len(s) \/ s[q[2] + 1] = ";"
                  /\ \A k \in q[1]..q[2] : s[k] # ";" } }

\* an element without its leading and trailing whitespace
TrimmedOf(e) ==
    LET I == {i \in 1..Len(e) : e[i] \notin Whitespace}
    IN  IF I = {} THEN <<>> ELSE SubSeq(e, SetMin(I), SetMax(I))

TrimmedElements(s) == { TrimmedOf(e) : e \in ListElements(s) }

\* the Mapping Entries the resolver that ran iterated over, in iteration order
RIterated ==
    LET col == get_source_column(rSource)
        V == [i \in DOMAIN rVitals |->
                [ids |-> RowGet(rVitals[i], col), cat |-> rVitals[i]["vital_category"]]]
        L == [j \in DOMAIN rLabs |->
                [ids |-> RowGet(rLabs[j], col), cat |-> rLabs[j]["lab_category"]]]
    IN  CASE rWho = "sic_vitals" -> V
          [] rWho = "sic_labs" -> L
          [] rWho \in {"hirid", "aumc"} -> V \o L
          [] OTHER -> <<>>

\* the normalized identifiers entry i lists: its elements of decimal digits, as
\* integers
Listed(i) ==
    { int(t) : t \in {u \in TrimmedElements(RIterated[i].ids) :
                        isdigit(u) /\ IntAccepts(u)} }

\* the identifiers entry i lists when "parses as an integer" is what int() accepts
ListedParsing(i) ==
    { int(t) : t \in {u \in TrimmedElements(RIterated[i].ids) : IntAccepts(u)} }

RResolved == rWho \in {"sic_vitals", "sic_labs", "hirid", "aumc"}

\* the mapping files were read and a resolver loop has run on them, to its end
\* or to an exception
RRan == rWho \in {"sic_vitals", "sic_labs", "hirid", "aumc", "ValueError"}

\* C2 as stated: after the numeric resolver has run over an ordered sequence of
\* Mapping Entries, every normalized identifier an entry lists is a key of the
\* Resolved Lookup and maps to the category of the last entry, in iteration
\* order, that lists it (last-write-wins); resolution ended without an error.
C2_LastWriteWins ==
    RRan =>
        /\ RResolved
        /\ \A i \in DOMAIN RIterated : \A k \in Listed(i) :
              /\ k \in DOMAIN rLookup
              /\ rLookup[k] =
                   RIterated[SetMax({j \in DOMAIN RIterated : k \in Listed(j)})].cat

\* C3 as stated: the key set of the Resolved Lookup is exactly the set of int(e)
\* of the trimmed ';'-separated elements that parse as integers, and resolution
\* never raises.
C3_KeysAreParsingElements ==
    RRan =>
        /\ RResolved
        /\ DOMAIN rLookup = UNION { ListedParsing(i) : i \in DOMAIN RIterated }

(* ------------------------------------------------------------------------ *)
(* Properties of the adapters and of the run                                *)
(* ------------------------------------------------------------------------ *)

\* the concept domain of the adapter that returned last in this run
LastDomain ==
    IF pc = "labs" THEN "vitals" ELSE IF pc = "complete" THEN "labs" ELSE "none"

\* the variant of that adapter
LastKind ==
    CASE LastDomain = "vitals" /\ source = "eicu" -> "column"
      [] LastDomain = "labs" /\ source = "eicu" -> "label"
      [] LastDomain = "vitals" /\ source \in {"sic", "hirid", "aumc"} -> "identifier"
      [] LastDomain = "labs" /\ source = "sic" -> "identifier"
      [] OTHER -> "none"

\* the concept domain of the adapter that ran last in this run, whether it
\* returned or raised
RanDomain ==
    IF status.labs # "none" THEN "labs"
    ELSE IF status.vitals # "none" THEN "vitals" ELSE "none"

\* the variant of that adapter
RanKind ==
    CASE RanDomain = "vitals" /\ source = "eicu" -> "column"
      [] RanDomain = "labs" /\ source = "eicu" -> "label"
      [] RanDomain = "vitals" /\ source \in {"sic", "hirid", "aumc"} -> "identifier"
      [] RanDomain = "labs" /\ source = "sic" -> "identifier"
      [] OTHER -> "none"

RanCfg ==
    CASE source = "sic" /\ RanDomain = "vitals" -> SicVitalsCfg
      [] source = "sic" /\ RanDomain = "labs" -> SicLabsCfg
      [] source = "hirid" -> HiridCfg
      [] source = "aumc" -> AumcCfg

\* the source rows of an identifier-keyed table whose identifier is a key of the
\* Resolved Lookup and whose value is non-null
Qualifying ==
    {i \in DOMAIN native.rows :
        /\ native.rows[i][RanCfg.item] \in DOMAIN id_map
        /\ native.rows[i][RanCfg.val] # NULL}

\* the canonical record (id, time, category, value) of qualifying row i
CanonicalOf(i) ==
    LET r == native.rows[i]
    IN  [c \in {"hospitalization_id", RanCfg.out_time, RanCfg.out_cat, RanCfg.out_val} |->
            IF c = "hospitalization_id" THEN r[RanCfg.enc]
            ELSE IF c = RanCfg.out_time THEN r[RanCfg.time]
            ELSE IF c = RanCfg.out_cat THEN id_map[r[RanCfg.item]]
            ELSE r[RanCfg.val]]

\* C1 as stated: when an identifier-keyed adapter (SIC vitals, SIC labs, HiRID,
\* AUMC) has run on its table, the output it wrote holds exactly the canonical
\* records of the source rows whose identifier is a key of the Resolved Lookup
\* and whose value is non-null, one output row per such source row; when it
\* wrote nothing, no source row satisfies both conditions.
C1_IdKeyedRows ==
    (RanKind = "identifier" /\ native.exists) =>
        IF status[RanDomain] = "wrote"
        THEN /\ files[RanDomain].exists
             /\ Len(files[RanDomain].rows) = Cardinality(Qualifying)
             /\ Range(files[RanDomain].rows) = {CanonicalOf(i) : i \in Qualifying}
        ELSE Qualifying = {}

\* the known value columns vitalperiodic.csv has
KnownColumns == native.cols \cap Range(EicuVitalCols)

\* the (row, known column) observations of vitalperiodic.csv with a non-null cell
Observations ==
    {p \in (DOMAIN native.rows) \X KnownColumns : native.rows[p[1]][p[2]] # NULL}

ObservationRecord(p) ==
    [hospitalization_id |-> native.rows[p[1]]["patientunitstayid"],
     recorded_dttm_offset_min |-> native.rows[p[1]]["observationoffset"],
     vital_category |-> eicu_vital_map[p[2]],
     vital_value |-> native.rows[p[1]][p[2]]]

\* C4: when the eICU vitals adapter has read a table with R rows and N >= 1 known
\* value columns, the unpivot produced R x N long rows and the written output
\* holds exactly one row (id, time, category of c, value) per source row and
\* present known column c whose cell is non-null.
C4_UnpivotRows ==
    (LastKind = "column" /\ native.exists) =>
        /\ Len(df_long) = Len(native.rows) * Cardinality(KnownColumns)
        /\ KnownColumns # {} =>
              /\ status.vitals = "wrote"
              /\ files.vitals.exists
              /\ Len(files.vitals.rows) = Cardinality(Observations)
              /\ Range(files.vitals.rows) = {ObservationRecord(p) : p \in Observations}

\* C4 witness: rows (t0, hr, temp) and (t5, null, temp) yield three rows, among
\* them the temperature at t5, and no heart rate at t5.
C4_Witness ==
    /\ LastKind = "column" /\ native.exists
    /\ KnownColumns = {"heartrate", "temperature"}
    /\ Len(native.rows) = 2
    /\ native.rows[1]["heartrate"] # NULL /\ native.rows[1]["temperature"] # NULL
    /\ native.rows[2]["heartrate"] = NULL /\ native.rows[2]["temperature"] # NULL
    /\ Len(df_long) = 4
    /\ Len(files.vitals.rows) = 3
    /\ \E r \in Range(files.vitals.rows) :
          r.recorded_dttm_offset_min = TimeAt(2) /\ r.vital_category = temp_c
    /\ ~\E r \in Range(files.vitals.rows) :
          r.recorded_dttm_offset_min = TimeAt(2) /\ r.vital_category = heart_rate

\* the adapters that read a native table
ReadsTable == LastKind \in {"identifier", "column", "label"}

\* C5 as stated: every adapter invocation whose native table exists ends with
\* its output written and an output file present for its concept domain, also
\* when zero rows match.
C5_ExistingTableIsWritten ==
    (ReadsTable /\ native.exists) =>
        status[LastDomain] = "wrote" /\ files[LastDomain].exists

\* the canonical records of the run of the adapter that returned last
LastCanonical ==
    CASE LastKind = "identifier" -> {CanonicalOf(i) : i \in Qualifying}
      [] LastKind = "column" -> {ObservationRecord(p) : p \in Observations}
      [] LastKind = "label" ->
           {[hospitalization_id |-> native.rows[i].patientunitstayid,
             lab_collect_dttm_offset_min |-> native.rows[i].labresultoffset,
             lab_category |-> Replace(id_map, lower(native.rows[i].labname)),
             lab_value |-> native.rows[i].labresult] :
               i \in {j \in DOMAIN native.rows : native.rows[j].labresult # NULL}}

\* C6 as stated: after an adapter whose native table existed has returned, an
\* output file of its concept domain holds exactly the canonical records of that
\* run, never the records of an earlier run.
C6_FileHoldsLatestRun ==
    (ReadsTable /\ native.exists /\ files[LastDomain].exists) =>
        Range(files[LastDomain].rows) = LastCanonical

\* the rows of lab.csv with a non-null value
LabRows == {i \in DOMAIN native.rows : native.rows[i].labresult # NULL}

\* the i-th of them, in source order
RECURSIVE NthOf(_, _)
NthOf(S, n) == IF n = 1 THEN SetMin(S) ELSE NthOf(S \ {SetMin(S)}, n - 1)

LabsWritten ==
    /\ status.labs = "wrote"
    /\ files.labs.exists
    /\ Len(files.labs.rows) = Cardinality(LabRows)
    /\ \A k \in 1..Len(files.labs.rows) :
          LET r == native.rows[NthOf(LabRows, k)]
              w == files.labs.rows[k]
          IN  /\ w.hospitalization_id = r.patientunitstayid
              /\ w.lab_collect_dttm_offset_min = r.labresultoffset
              /\ w.lab_value = r.labresult

\* C8 as stated: in the eICU labs adapter every source row with a non-null value
\* is written and only those; a row whose lower-cased label is a key of the
\* Resolved Lookup is written with the mapped category, and a row whose
\* lower-cased label is not a key is written with a null category.
C8_UnmappedCategoryIsNull ==
    (LastKind = "label" /\ native.exists) =>
        /\ LabsWritten
        /\ \A k \in 1..Len(files.labs.rows) :
              LET l == lower(native.rows[NthOf(LabRows, k)].labname)
              IN  files.labs.rows[k].lab_category =
                     IF l \in DOMAIN id_map THEN CastString(id_map[l]) ELSE NULL

\* C8 amended: in the eICU labs adapter every source row with a non-null value
\* is written and only those; a row whose lower-cased label is a key of the
\* Resolved Lookup is written with the mapped category, and a row whose
\* lower-cased label is not a key is written with its lower-cased label as
\* category.
C8_UnmappedCategoryIsLabel ==
    (LastKind = "label" /\ native.exists) =>
        /\ LabsWritten
        /\ \A k \in 1..Len(files.labs.rows) :
              LET l == lower(native.rows[NthOf(LabRows, k)].labname)
              IN  files.labs.rows[k].lab_category =
                     IF l \in DOMAIN id_map THEN CastString(id_map[l]) ELSE l

\* C8 witness: a null-value row is dropped, a mapped label is written with its
\* category and an unmapped label with its lower-cased text.
C8_Witness ==
    /\ LastKind = "label" /\ native.exists
    /\ Len(native.rows) = 2
    /\ \E i \in DOMAIN native.rows :
          /\ native.rows[i].labresult # NULL
          /\ lower(native.rows[i].labname) \notin DOMAIN id_map
          /\ lower(native.rows[i].labname) # native.rows[i].labname
          /\ \E w \in Range(files.labs.rows) :
                w.lab_category = lower(native.rows[i].labname)
    /\ \E j \in DOMAIN native.rows : native.rows[j].labresult = NULL
    /\ Len(files.labs.rows) = 1

\* the position after the adapter at position p has returned
AfterAdapter(p) == IF p = "vitals" THEN "labs" ELSE "complete"

LabsAdapters ==
    \/ etl_eicu_labs(MaxRerunRows) \/ etl_sic_labs(MaxRerunRows)
    \/ etl_hirid_labs \/ etl_aumc_labs

\* C7 as stated: an adapter that finds no native table to read returns without
\* raising and leaves the output directory and both output files as they were,
\* and the run goes on: after the vitals adapter the labs adapter of the dataset
\* can run.
C7_AbsentTableSkips ==
    /\ [][(pc \in {"vitals", "labs"} /\ pc' # pc /\ ~native'.exists) =>
            /\ pc' = AfterAdapter(pc)
            /\ files' = files
            /\ output_dir' = output_dir]_vars
    /\ [](pc = "labs" => ENABLED LabsAdapters)

\* C9 as stated: load_mappings fails unless the mapping directory holds exactly
\* one candidate file: a call that found zero or several candidates raised.
C9_LoadNeedsExactlyOne ==
    \A k \in DOMAIN csv_files :
        csv_files[k] # 1 => (pc = "FileNotFoundError" /\ k = Len(csv_files))

\* C10: when the mapping directory of any of the four types is empty,
\* construction raises, with the output directory and its files as they were,
\* and nothing but a new start of the program follows; run() and the adapters
\* are reached only with all four mapping types loaded.
C10_MissingMappingAborts ==
    /\ [][(\E k \in DOMAIN csv_files' : csv_files'[k] = 0) =>
            /\ pc' = "FileNotFoundError"
            /\ files' = files
            /\ output_dir' = output_dir]_vars
    /\ [][pc = "FileNotFoundError" =>
            /\ pc' \in {"FileNotFoundError", "main"}
            /\ files' = files
            /\ output_dir' = output_dir]_vars
    /\ [](pc = "run" =>
            /\ Len(csv_files) = Len(MappingTypes)
            /\ \A k \in DOMAIN csv_files : csv_files[k] >= 1)
    /\ [](pc \in {"OpenCLIFETL_init", "main", "exit1", "FileNotFoundError"} =>
            status = NoStatus)

\* C10 witness: only the respiratory_support mapping, which no adapter uses, is
\* missing; construction raised and the vitals file of an earlier run is there.
C10_Witness ==
    /\ pc = "FileNotFoundError"
    /\ Len(csv_files) = 4 /\ csv_files[4] = 0
    /\ files.vitals.exists /\ Len(files.vitals.rows) > 0

\* C11: executing the adapter that has just returned a second time, on the same
\* native table and the same mapping tables, leaves the output directory as the
\* first execution left it: the same files with the same records in the same
\* order, and the same outcome reported.
C11_SecondRunChangesNothing ==
    [][(pc' = pc /\ pc \in {"labs", "complete"}) =>
          /\ files' = files
          /\ output_dir' = output_dir
          /\ status'.vitals = status.vitals
          /\ status'.labs = status.labs]_vars

\* C11 witness: an adapter that found its table and wrote records has been
\* executed a second time on the same input.
C11_Witness ==
    /\ status.again \in {"vitals", "labs"}
    /\ status[status.again] = "wrote"
    /\ native.exists
    /\ files[status.again].exists
    /\ Len(files[status.again].rows) > 0

\* the labels an entry lists for eICU: the elements of its ';'-delimited list,
\* trimmed and lower-cased
ListedLabels(i) ==
    { lower(e) : e \in TrimmedElements(RowGet(labs_map[i], "eicu_ids")) \ {<<>>} }

\* C12 as stated: after the eICU labs adapter has built its lookup, every label
\* listed by an entry (split on ';', trimmed, lower-cased) is a key, mapped to
\* the category of the last entry that lists it.
C12_ListedLabelsResolve ==
    (LastKind = "label" /\ native.exists) =>
        \A i \in DOMAIN labs_map : \A e \in ListedLabels(i) :
            /\ e \in DOMAIN id_map
            /\ \/ id_map[e] = labs_map[i]["lab_category"]
               \/ \E j \in DOMAIN labs_map : j > i /\ e \in ListedLabels(j)

\* the normalized identifiers of one identifier-list cell
DigitIds(cell) ==
    { int(t) : t \in {u \in TrimmedElements(cell) : isdigit(u) /\ IntAccepts(u)} }

\* the entries of a mapping table that list identifier k for the resolved dataset
ListingEntries(table, k) ==
    {i \in DOMAIN table : k \in DigitIds(RowGet(table[i], get_source_column(rSource)))}

\* C13 as stated: in the merged lookup of HiRID and of AUMC, an identifier
\* listed by a labs entry maps to the category of the last labs entry listing
\* it, whether or not
\* a vitals entry lists it too; an identifier listed by vitals entries only maps
\* to the category of the last vitals entry listing it; nothing else is a key.
C13_LabsOverVitals ==
    rWho \in {"hirid", "aumc"} =>
        /\ \A k \in DOMAIN rLookup :
              ListingEntries(rVitals, k) \cup ListingEntries(rLabs, k) # {}
        /\ \A k \in UNION { DigitIds(RowGet(rLabs[j], get_source_column(rSource))) :
                              j \in DOMAIN rLabs } :
              /\ k \in DOMAIN rLookup
              /\ rLookup[k] = rLabs[SetMax(ListingEntries(rLabs, k))]["lab_category"]
        /\ \A k \in UNION { DigitIds(RowGet(rVitals[i], get_source_column(rSource))) :
                              i \in DOMAIN rVitals } :
              ListingEntries(rLabs, k) = {} =>
                 /\ k \in DOMAIN rLookup
                 /\ rLookup[k] = rVitals[SetMax(ListingEntries(rVitals, k))]["vital_category"]


\* the output directory after the sequential run, vitals adapter then labs
\* adapter unless the vitals adapter raised, on the tables the workers found
SequentialFiles ==
    LET fresh == [d \in {"vitals", "labs"} |-> Absent]
        v == RunAdapter(source, "vitals", ctables.vitals, vitals_map, labs_map, fresh)
    IN  IF v.outcome \in Exceptions THEN v.files
        ELSE RunAdapter(source, "labs", ctables.labs, vitals_map, labs_map, v.files).files

OtherDomain(d) == IF d = "vitals" THEN "labs" ELSE "vitals"

\* no step of a worker changes the mapping tables or the other domain's file
WorkersAreDisjoint ==
    \A d \in {"vitals", "labs"} :
        cpc'[d] # cpc[d] =>
           /\ files'[OtherDomain(d)] = files[OtherDomain(d)]
           /\ vitals_map' = vitals_map
           /\ labs_map' = labs_map

\* C14 as stated: when the vitals and the labs adapter of a dataset run as
\* independent workers, in any order and with their steps interleaved, the
\* final output directory, whether the run completed or an adapter raised, is
\* that of the sequential vitals-then-labs run on the same tables; no step of a
\* worker changes the mapping tables or the other domain's file.
C14_AnyOrderSameDirectory ==
    /\ []((/\ pc \in {"complete"} \cup Exceptions
           /\ \A d \in {"vitals", "labs"} : cpc[d] # "idle")
             => files = SequentialFiles)
    /\ [][WorkersAreDisjoint]_vars

\* C15: when the vitals adapter of a dataset has written its file and the labs
\* adapter then fails with an exception, the failing step leaves the vitals file
\* as the vitals adapter wrote it, for eICU the non-null cells of the unpivoted
\* frame, and creates no labs file; the program ends with that exception.
C15_NoRollback ==
    /\ [][(pc = "labs" /\ status.vitals = "wrote" /\ pc' \in Exceptions) =>
            /\ files.vitals.exists
            /\ files'.vitals = files.vitals
            /\ ~files'.labs.exists
            /\ status'.labs = pc']_vars
    /\ []((status.vitals = "wrote" /\ status.labs \in Exceptions) =>
            /\ pc = status.labs
            /\ files.vitals.exists
            /\ source = "eicu" => files.vitals = File(EicuVitalsClif(df_long))
            /\ ~files.labs.exists
            /\ output_dir)

\* C15 witness: vitals wrote records, then lab.csv had no labresult column.
C15_Witness ==
    /\ pc = "ColumnNotFoundError"
    /\ status.vitals = "wrote" /\ status.labs = "ColumnNotFoundError"
    /\ Len(files.vitals.rows) > 0

\* C16 as stated: once the builder has run, each of the four mapping files is
\* there and has a column <dataset>_ids for every supported dataset, and every
\* row a resolver iterates over has the column of the resolver's dataset.
C16_EveryDatasetHasColumn ==
    rWho # "unbuilt" =>
        /\ \A t \in DOMAIN mapping_files :
              /\ mapping_files[t].exists
              /\ \A ds \in SUPPORTED_SOURCES :
                    get_source_column(ds) \in Range(mapping_files[t].cols)
        /\ \A i \in DOMAIN rVitals : get_source_column(rSource) \in DOMAIN rVitals[i]
        /\ \A j \in DOMAIN rLabs : get_source_column(rSource) \in DOMAIN rLabs[j]

\* the row of a category in the built labs file
LabsRowOf(cat) ==
    CHOOSE i \in DOMAIN mapping_files["labs"].rows :
        mapping_files["labs"].rows[i]["lab_category"] = cat

\* the normalized identifiers the built row of a category lists for the dataset
BuiltIds(cat) ==
    DigitIds(RowGet(mapping_files["labs"].rows[LabsRowOf(cat)],
                    get_source_column(rSource)))

\* the rows of the built labs file agree on the two glucose rows: the
\* fingerstick row comes first and both carry identical identifier lists
GlucoseRowsAgree ==
    /\ LabsRowOf(glucose_fingerstick) < LabsRowOf(glucose_serum)
    /\ \A c \in Range(IdColumns) :
          mapping_files["labs"].rows[LabsRowOf(glucose_fingerstick)][c]
             = mapping_files["labs"].rows[LabsRowOf(glucose_serum)][c]
    /\ BuiltIds(glucose_fingerstick) = BuiltIds(glucose_serum)

\* the categories of the labs rows the resolver read
ReadLabCategories == {rLabs[i]["lab_category"] : i \in DOMAIN rLabs}

\* identifier k of the labs table is one the numeric resolver skips: 0 in an
\* identifier column that holds integers only, which read_csv reads as Int64
SkippedZero(k) == k = 0 /\ dtype(rLabs, get_source_column(rSource)) = "Int64"

\* C20 as stated: in the built labs file the rows of glucose_fingerstick and
\* glucose_serum, both bound to the ricu concept glu, carry identical identifier
\* lists in every identifier column, the fingerstick row first; so both list the
\* same identifiers, and a numeric resolver that read the file maps each of them
\* to glucose_serum and nothing to glucose_fingerstick.
C20_SharedConceptLaterRowWins ==
    /\ rWho # "unbuilt" => GlucoseRowsAgree
    /\ rWho \in {"sic_labs", "hirid", "aumc"} =>
          /\ \A k \in BuiltIds(glucose_fingerstick) :
                k \in DOMAIN rLookup /\ rLookup[k] = glucose_serum
          /\ \A k \in DOMAIN rLookup : rLookup[k] # glucose_fingerstick

\* C20 amended: in the built labs file the rows of glucose_fingerstick and
\* glucose_serum carry identical identifier lists in every identifier column,
\* the fingerstick row first; a numeric resolver that read the file maps nothing
\* to glucose_fingerstick, and maps each identifier the two rows list to the
\* category of the last labs row in table order that lists it, which is
\* glucose_serum exactly when no row after the glucose_serum row lists it;
\* except the identifier 0 of a column that holds integers only, which the
\* resolver skips and for which no labs row makes an entry.
C20_SharedConceptLastRowWins ==
    /\ rWho # "unbuilt" => GlucoseRowsAgree
    /\ rWho \in {"sic_labs", "hirid", "aumc"} =>
          /\ \A k \in BuiltIds(glucose_fingerstick) :
                IF SkippedZero(k)
                THEN k \in DOMAIN rLookup => rLookup[k] \notin ReadLabCategories
                ELSE /\ k \in DOMAIN rLookup
                     /\ rLookup[k] =
                           rLabs[SetMax(ListingEntries(rLabs, k))]["lab_category"]
                     /\ rLookup[k] = glucose_serum <=>
                           SetMax(ListingEntries(rLabs, k)) = LabsRowOf(glucose_serum)
          /\ \A k \in DOMAIN rLookup : rLookup[k] # glucose_fingerstick

\* C20 witness: the glu concept lists the HiRID identifiers 2 and 1, joined with
\* "; " in both glucose rows, and the hgb concept lists 1 too: the HiRID lookup
\* maps 2 to glucose_serum and 1 to hemoglobin.
C20_Witness ==
    /\ rWho = "hirid"
    /\ BuiltIds(glucose_fingerstick) = {1, 2}
    /\ 1 \in BuiltIds(hemoglobin)
    /\ rLookup[2] = glucose_serum
    /\ rLookup[1] = hemoglobin

\* C17 as stated: when vitalperiodic.csv exists but has none of the seven known value
\* columns, the eICU vitals adapter returns normally, the run goes on to the
\* labs adapter, and no record is emitted: nothing is unpivoted and the output
\* files are as they were.
C17_NoKnownColumns ==
    [][(pc = "vitals" /\ pc' # pc /\ source = "eicu" /\ native'.exists
          /\ native'.cols \cap Range(EicuVitalCols) = {}) =>
            /\ pc' = "labs"
            /\ status'.vitals = "no_columns"
            /\ df_long' = <<>>
            /\ files' = files
            /\ output_dir' = output_dir]_vars

\* the source rows of the table just read whose identifier is a key of the lookup
MappedRows ==
    {i \in DOMAIN native.rows : native.rows[i][RanCfg.item] \in DOMAIN id_map}

\* C18 as stated: an identifier-keyed adapter that runs on its table writes its
\* output file exactly when at least one source row has a mapped identifier,
\* whatever the values are: the file is empty when all those rows have null
\* values; when no source row has a mapped identifier it writes nothing and both
\* output files stay as they were.
C18_ExitBeforeNullFilter ==
    [][(pc \in {"vitals", "labs"} /\ pc' # pc /\ RanKind' = "identifier"
          /\ native'.exists) =>
            IF MappedRows' # {}
            THEN /\ status'[RanDomain'] = "wrote"
                 /\ files'[RanDomain'].exists
                 /\ (\A i \in MappedRows' : native'.rows[i][RanCfg'.val] = NULL)
                       => files'[RanDomain'].rows = <<>>
                 /\ files'[OtherDomain(RanDomain')] = files[OtherDomain(RanDomain')]
            ELSE /\ status'[RanDomain'] = "no_match"
                 /\ files' = files]_vars

\* the labs Mapping Entries that list identifier k for the dataset of the run
LabsClaiming(k) ==
    {j \in DOMAIN labs_map :
        k \in DigitIds(RowGet(labs_map[j], get_source_column(source)))}

\* the vitals file holds the record of source row i with category cat
InVitalsFile(i, cat) ==
    /\ files.vitals.exists
    /\ \E n \in DOMAIN files.vitals.rows :
          LET r == files.vitals.rows[n]
          IN  /\ r["hospitalization_id"] = native.rows[i][RanCfg.enc]
              /\ r[RanCfg.out_time] = native.rows[i][RanCfg.time]
              /\ r["vital_category"] = cat
              /\ r["vital_value"] = native.rows[i][RanCfg.val]

\* C19 as stated, for the observations that have a value: for HiRID and AUMC no
\* step creates or modifies the labs file; the labs step reads no table and
\* leaves both files as they are; and after the observations adapter has run on
\* its table, every observation with a non-null value whose identifier is
\* claimed by a labs Mapping Entry is in the vitals file with the lab category
\* name in its vital_category column.
C19_LabsGoToVitals ==
    /\ [][(source \in {"hirid", "aumc"}) => (files'["labs"] = files["labs"])]_vars
    /\ [][(pc = "labs" /\ pc' # pc /\ source \in {"hirid", "aumc"}) =>
            (files' = files /\ native' = NoTable /\ pc' = "complete")]_vars
    /\ []((source \in {"hirid", "aumc"} /\ RanDomain = "vitals" /\ native.exists) =>
            /\ ~files.labs.exists
            /\ \A i \in DOMAIN native.rows :
                  (/\ LabsClaiming(native.rows[i][RanCfg.item]) # {}
                   /\ native.rows[i][RanCfg.val] # NULL) =>
                      InVitalsFile(i, labs_map[SetMax(
                          LabsClaiming(native.rows[i][RanCfg.item]))]["lab_category"]))

====
